---- MODULE Spec2Model ----
(***************************************************************************)
(* A model of the stitch shard pipeline: Encode, FinalizeHeader,           *)
(* NewReadSeeker with its layered readers (limit reader, zstd, AES-GCM,    *)
(* Reed-Solomon, offset-shifted shards), and the verifier.                 *)
(*                                                                         *)
(* Bytes are symbolic.  A byte string is a sequence of runs                *)
(* [s, lo, hi]: the bytes lo..hi-1 of stream s, where s is                 *)
(*   "X"    the plaintext handed to Encode,                                *)
(*   "Z"    the compressed stream the zstd writer hands to the AES writer  *)
(*          (positions at or past the stream's length are AES padding),    *)
(*   "E"    the ciphertext stream the AES writer hands to the RS writer    *)
(*          (positions at or past the stream's length are RS padding),     *)
(*   "junk" bytes with no meaning (stale buffer contents, zeroes).         *)
(* Two byte strings are equal iff they hold the same bytes of the same     *)
(* stream in the same order, so sizes keep their real values.              *)
(***************************************************************************)
EXTENDS Integers, Sequences, FiniteSets, TLC

----------------------------------------------------------------------------
\* Program constants.

rsBlockSize == 4096

aesBlockSize == 1024

HeaderSize == 1024

BlockOverhead == 32

Overhead == 16

----------------------------------------------------------------------------
\* Bounds of the model.

\* Largest number of damage steps applied to the shards.
MaxDamage == 2

\* Largest number of Seek/Read calls made on one reader.
MaxOps == 3

\* Largest index (from 1) of a block that damage reaches on a shard.
MaxBlocks == 3

\* Largest number of Write calls a failing shard writer accepts first.
MaxWrites == 7

\* Largest number of RotateKeys calls.
MaxRotations == 2

----------------------------------------------------------------------------
\* Symbolic byte strings.

Min(a, b) == IF a < b THEN a ELSE b

Max(a, b) == IF a > b THEN a ELSE b

Run(s, lo, hi) == [s |-> s, lo |-> lo, hi |-> hi]

Junk(n) == IF n > 0 THEN <<Run("junk", 0, n)>> ELSE <<>>

RECURSIVE BLen(_)
BLen(bs) == IF bs = <<>> THEN 0 ELSE (bs[1].hi - bs[1].lo) + BLen(Tail(bs))

AppendRun(bs, r) ==
    IF r.hi <= r.lo THEN bs
    ELSE IF bs = <<>> THEN <<r>>
    ELSE LET l == bs[Len(bs)] IN
         IF l.s = r.s /\ r.s = "junk"
         THEN [bs EXCEPT ![Len(bs)] = Run("junk", 0, l.hi + (r.hi - r.lo))]
         ELSE IF l.s = r.s /\ l.hi = r.lo
         THEN [bs EXCEPT ![Len(bs)] = Run(l.s, l.lo, r.hi)]
         ELSE Append(bs, r)

RECURSIVE Cat(_, _)
Cat(a, b) == IF b = <<>> THEN a ELSE Cat(AppendRun(a, b[1]), Tail(b))

\* The bytes from..to-1 of bs (clipped to bs).
RECURSIVE Slice(_, _, _)
Slice(bs, from, to) ==
    IF bs = <<>> \/ to <= from \/ to <= 0 THEN <<>>
    ELSE LET r == bs[1]
             n == r.hi - r.lo
             a == Max(from, 0)
             b == Min(to, n)
             head == IF a < b
                     THEN IF r.s = "junk" THEN Junk(b - a)
                          ELSE <<Run(r.s, r.lo + a, r.lo + b)>>
                     ELSE <<>>
         IN Cat(head, Slice(Tail(bs), from - n, to - n))

\* copy(p[at:], src): src laid over p from index at, cut at the end of p.
PutAt(p, at, src) ==
    LET n == Min(BLen(src), BLen(p) - at) IN
    IF at >= BLen(p) \/ n <= 0 THEN p
    ELSE Cat(Cat(Slice(p, 0, at), Slice(src, 0, n)), Slice(p, at + n, BLen(p)))

----------------------------------------------------------------------------
\* Options, keys and headers.

\* EncoderOptions the model runs with: the shard counts are uint8 fields.
Configs ==
    { [DataShards |-> 2, ParityShards |-> 1, KeyThreshold |-> 2],
      [DataShards |-> 2, ParityShards |-> 0, KeyThreshold |-> 2],
      [DataShards |-> 1, ParityShards |-> 1, KeyThreshold |-> 2] }

\* Plaintext sizes: empty, one AES chunk, the size of the repository's
\* round-trip test, two read chunks, and the size of its verifier test.
Sizes == {0, 100, 3922, 8192, 16384}

\* User keys (key and iv together): key 1 is the one Encode is given.
UserKeys == {1, 2}

totalShards(o) == (o.DataShards + o.ParityShards) % 256

ShardIds(o) == 0 .. (totalShards(o) - 1)

\* shamir.Split of the wrapped file key [kf wrapped under ku]: share i of an
\* ideal (threshold, parts) scheme.  Each call draws its own polynomial: g
\* tells the calls apart (0 is the call Encode makes).
NoShare == [kf |-> 0, ku |-> 0, x |-> 0, t |-> 0, g |-> 0]

SplitFileKey(kf, ku, parts, threshold, g) ==
    [i \in 0 .. (parts - 1) |-> [kf |-> kf, ku |-> ku, x |-> i + 1, t |-> threshold, g |-> g]]

Split(kf, ku, parts, threshold) == SplitFileKey(kf, ku, parts, threshold, 0)

\* shamir.Combine: the secret, when the pieces are at least t distinct shares
\* of one secret; some other byte string otherwise.
Combine(pieces) ==
    IF pieces # {}
       /\ (\A a, b \in pieces : a.kf = b.kf /\ a.ku = b.ku /\ a.t = b.t /\ a.g = b.g)
       /\ (\A a \in pieces : a.x > 0 /\ Cardinality({b.x : b \in pieces}) >= a.t)
    THEN LET a == CHOOSE a \in pieces : TRUE IN [kf |-> a.kf, ku |-> a.ku]
    ELSE [kf |-> 0, ku |-> 0]

\* gcm.Open of the wrapped file key under a user key: the file key, or 0
\* when authentication fails.
OpenFileKey(wrapped, ku) == IF wrapped.kf # 0 /\ wrapped.ku = ku THEN wrapped.kf ELSE 0

\* SHA-256, collision-free: a digest is identified by the bytes it was taken of.
NoHash == [zero |-> TRUE, of |-> <<>>]

Sha256(bs) == [zero |-> FALSE, of |-> bs]

NoHeader ==
    [ShardIndex |-> 0, ShardCount |-> 0, FileKey |-> NoShare, FileHash |-> NoHash,
     FileSize |-> 0, EncryptedSize |-> 0, CompressedSize |-> 0,
     RSBlockSize |-> 0, AESBlockSize |-> 0, IsComplete |-> FALSE]

\* The header Encode writes first to shard i.
ProvisionalHeader(o, i, share) ==
    [ShardIndex |-> i, ShardCount |-> totalShards(o), FileKey |-> share,
     FileHash |-> NoHash, FileSize |-> 0, EncryptedSize |-> 0, CompressedSize |-> 0,
     RSBlockSize |-> rsBlockSize, AESBlockSize |-> aesBlockSize, IsComplete |-> FALSE]

\* The header Encode appends to shard i once the data is written.
CompleteHeader(h, digest, fileSize, written, read) ==
    [h EXCEPT !.FileHash = digest, !.FileSize = fileSize, !.EncryptedSize = written,
              !.CompressedSize = read, !.IsComplete = TRUE]

\* A header-sized region of a shard file: st is "none" (no bytes there),
\* "hdr" (an encoded header h) or "bad" (bytes that do not start with the magic).
NoRegion == [st |-> "none", h |-> NoHeader]

HdrRegion(h) == [st |-> "hdr", h |-> h]

BadRegion == [st |-> "bad", h |-> NoHeader]

\* Header.Decode of a region that was read in full.
Decode(region) ==
    IF region.st = "hdr" THEN [err |-> "", h |-> region.h]
    ELSE [err |-> "ErrUnrecognizedMagic", h |-> NoHeader]

----------------------------------------------------------------------------
\* Shard files.  A shard is, in file order: the front region, the framed
\* blocks (rsBlockSize payload bytes and their SHA-256), a payload whose hash
\* was never written (part bytes), and the trailer region.  A block records
\* the offset lo in the ciphertext stream of the stripe it belongs to, and
\* whether its payload still matches its hash.

EmptyShard ==
    [front |-> NoRegion, blocks |-> <<>>, part |-> 0, plo |-> 0, trl |-> NoRegion, late |-> 0]

RegionLen(region) == IF region.st = "none" THEN 0 ELSE HeaderSize

FrameLen == rsBlockSize + BlockOverhead

ShardLen(s) ==
    RegionLen(s.front) + Len(s.blocks) * FrameLen + s.part + RegionLen(s.trl)

----------------------------------------------------------------------------
\* The writers Encode stacks.  Their joint state w holds the shard files sh,
\* the first error err, the number of Write calls each shard writer still
\* accepts (budget, negative: no limit), and the counters of each layer.

\* shards[i].Write: kind is "header", "payload", "hash" or "trailer", and arg
\* the header, or the stripe whose block is written or hashed.  A hash
\* closes a framed block, which is sound (ok) when the hash is of the block
\* written before it.  A write to a shard that has its trailer lands after
\* it (late counts them).
ShardWrite(w, i, kind, arg) ==
    IF w.err # "" THEN w
    ELSE IF w.budget[i] = 0 THEN [w EXCEPT !.err = "write failed"]
    ELSE LET s == w.sh[i]
             s2 == CASE s.trl.st # "none" -> [s EXCEPT !.late = @ + 1]
                     [] kind = "header"  -> [s EXCEPT !.front = HdrRegion(arg)]
                     [] kind = "payload" -> [s EXCEPT !.part = rsBlockSize, !.plo = arg]
                     [] kind = "hash"    -> [s EXCEPT !.blocks = Append(@, [lo |-> s.plo,
                                                           ok |-> s.part = rsBlockSize /\ s.plo = arg]),
                                                      !.part = 0, !.plo = 0]
                     [] kind = "trailer" -> [s EXCEPT !.trl = HdrRegion(arg)]
         IN [w EXCEPT !.sh[i] = s2, !.budget[i] = IF @ < 0 THEN @ ELSE @ - 1]

\* A loop that writes to each destination the hash first, then the block.
RECURSIVE WriteStripeHashFirst(_, _, _, _)
WriteStripeHashFirst(w, lo, i, n) ==
    IF i >= n \/ w.err # "" THEN w
    ELSE WriteStripeHashFirst(ShardWrite(ShardWrite(w, i, "hash", lo), i, "payload", lo),
                              lo, i + 1, n)

\* The loop of reedsolomon Writer.Write and Writer.Close over the shards of
\* one stripe: block, then hash, to each destination in turn.
RECURSIVE WriteStripe(_, _, _, _)
WriteStripe(w, lo, i, n) ==
    IF i >= n \/ w.err # "" THEN w
    ELSE WriteStripe(ShardWrite(ShardWrite(w, i, "payload", lo), i, "hash", lo), lo, i + 1, n)

\* A Write that lets one stripe leave at most, whatever is buffered.
RSFlushOnce(w, o, readSize) ==
    IF w.err # "" \/ w.rsbuf < readSize THEN w
    ELSE WriteStripe([w EXCEPT !.rsbuf = @ - readSize, !.rsout = @ + readSize],
                     w.rsout, 0, totalShards(o))

\* reedsolomon Writer.Write after the append: stripes leave while the buffer
\* holds BlockSize * DataShards bytes.
RECURSIVE RSFlush(_, _, _)
RSFlush(w, o, readSize) ==
    IF w.err # "" \/ w.rsbuf < readSize THEN w
    ELSE RSFlush(WriteStripe([w EXCEPT !.rsbuf = @ - readSize, !.rsout = @ + readSize],
                             w.rsout, 0, totalShards(o)),
                 o, readSize)

RSWrite(w, o, len) ==
    IF w.err # "" THEN w
    ELSE RSFlush([w EXCEPT !.rsbuf = @ + len], o, rsBlockSize * o.DataShards)

\* A Close that drops what is buffered: the final stripe is never written.
RSCloseDropped(w, o) == IF w.err # "" \/ w.rsbuf = 0 THEN w ELSE [w EXCEPT !.rsbuf = 0]

\* reedsolomon Writer.Close: nothing for an empty buffer, else one stripe
\* padded to BlockSize * DataShards.
RSClose(w, o) ==
    IF w.err # "" \/ w.rsbuf = 0 THEN w
    ELSE WriteStripe([w EXCEPT !.rsbuf = 0, !.rsout = @ + rsBlockSize * o.DataShards],
                     w.rsout, 0, totalShards(o))

GetOffset(chunkSize, overhead, index) == index * (chunkSize + overhead)

FromOffset(chunkSize, overhead, offset) == offset \div (chunkSize + overhead)

\* binary.BigEndian.PutUint64 (n = 8): the n bytes of v, high byte first.
RECURSIVE BigEndian(_, _)
BigEndian(v, n) == IF n = 0 THEN <<>> ELSE Append(BigEndian(v \div 256, n - 1), v % 256)

\* The nonce of chunk index: gcm.NonceSize() = 12 zero bytes, PutUint64 then
\* fills the first eight.
Nonce(index) == BigEndian(index, 8) \o <<0, 0, 0, 0>>

\* A ciphertext counter that leaves the tag of each chunk out.
AESWrittenPlain(w) ==
    IF w.err = "" THEN [w EXCEPT !.aeswritten = @ + aesBlockSize] ELSE w

\* One gcm.Seal in the AES writer, and the Write of the ciphertext: the chunk
\* is remembered by its index and nonce, its ciphertext offset and its
\* plaintext offset.
AESWritten(w) ==
    IF w.err = "" THEN [w EXCEPT !.aeswritten = @ + aesBlockSize + Overhead] ELSE w

AESSeal(w, o, taken) ==
    AESWritten(RSWrite([w EXCEPT !.aesbuf = @ - taken,
                                 !.chunks = Append(@, [idx  |-> FromOffset(aesBlockSize, Overhead,
                                                                           w.aeswritten),
                                                       nonce |-> Nonce(FromOffset(aesBlockSize,
                                                                     Overhead, w.aeswritten)),
                                                       eoff |-> w.rsout + w.rsbuf,
                                                       zoff |-> w.aesread - w.aesbuf])],
                       o, aesBlockSize + Overhead))

\* A Write that seals one chunk at most, whatever is buffered.
AESFlushOnce(w, o) ==
    IF w.err # "" \/ w.aesbuf < aesBlockSize THEN w ELSE AESSeal(w, o, aesBlockSize)

RECURSIVE AESFlush(_, _)
AESFlush(w, o) ==
    IF w.err # "" \/ w.aesbuf < aesBlockSize THEN w
    ELSE AESFlush(AESSeal(w, o, aesBlockSize), o)

\* AESWriter.Write
AESWrite(w, o, len) ==
    IF w.err # "" THEN w
    ELSE AESFlush([w EXCEPT !.aesbuf = @ + len, !.aesread = @ + len], o)

\* AESWriter.Close: what is buffered, zero-padded to a chunk, is always sealed.
AESClose(w, o) == IF w.err # "" THEN w ELSE AESSeal(w, o, w.aesbuf)

\* The seekable zstd writer (a library): each Write becomes one frame, Close
\* appends the seek table.  An incompressible frame is stored with the frame
\* header, block header and checksum around it; a frame of zeroes shrinks to
\* a run-length block.
ZFrameLen(len, kind) == IF kind = "zeros" THEN Min(len, 1) + 18 ELSE len + 14

ZTableLen(frames) == 17 + 12 * frames

ZWrite(w, o, len, kind) ==
    IF w.err # "" THEN w
    ELSE AESWrite([w EXCEPT !.frames = Append(@, [xoff |-> w.zx, xlen |-> len, zoff |-> w.zz,
                                                  zlen |-> ZFrameLen(len, kind)]),
                            !.zx = @ + len, !.zz = @ + ZFrameLen(len, kind)],
                  o, ZFrameLen(len, kind))

ZClose(w, o) ==
    IF w.err # "" THEN w
    ELSE AESWrite([w EXCEPT !.tableOff = w.zz, !.zz = @ + ZTableLen(Len(w.frames))],
                  o, ZTableLen(Len(w.frames)))

----------------------------------------------------------------------------
\* State.

VARIABLES
    opts,      \* the EncoderOptions of the Encoder
    medium,    \* "file": the shards are *os.File; "membuf": they are not
    xlen,      \* length of the plaintext X
    xkind,     \* "random" (incompressible) or "zeros"
    shards,    \* the shard files, by the position they were handed to Encode
    stream,    \* what Encode's writers made: zstd frames, sealed chunks, sizes
    enc,       \* the outcome of Encode
    fin,       \* the outcome of the last FinalizeHeader on each shard
    dmg,       \* number of damage steps so far
    vres,      \* the outcome of the last VerifyIntegrity
    rd,        \* the reader NewReadSeeker returned, and its layers' state
    out,       \* what the calls on the reader have returned
    rot,       \* the outcome of the last RotateKeys and of the UpdateShardKey calls
    hd,        \* a header under Header.Encode and Header.Decode
    ae         \* an AESWriter under Write and Close, and the calls on an AESReader

vars == <<opts, medium, xlen, xkind, shards, stream, enc, fin, dmg, vres, rd, out, rot, hd, ae>>

NoStream ==
    [kf |-> 0, chunks |-> <<>>, frames |-> <<>>, tableOff |-> 0, csize |-> 0, esize |-> 0]

NoEnc == [done |-> FALSE, err |-> "", FileSize |-> 0, FileHash |-> NoHash, plan |-> ""]

----------------------------------------------------------------------------
\* Encoder.Encode

\* What data.Read(chunk) returns at position pos of X.  A "buffer" reader
\* fills the chunk while bytes remain; a "short" reader (a pipe, a socket)
\* returns half of that on its first call.  Past the end both return io.EOF.
ReadLen(plan, pos, len) ==
    IF plan = "short" /\ pos = 0 THEN (Min(len, rsBlockSize) + 1) \div 2
    ELSE Min(len - pos, rsBlockSize)

\* The read loop of Encode: one pass is EncodeChunk, then EncodeNext.
RECURSIVE EncodeLoop(_, _, _, _, _, _)
EncodeNext(w, o, plan, pos, len, kind, n) ==
    IF w.err # "" THEN w
    ELSE IF n < rsBlockSize THEN [w EXCEPT !.hashed = @ + n]
    ELSE EncodeLoop([w EXCEPT !.hashed = @ + n], o, plan, pos + n, len, kind)

EncodeChunk(w, o, plan, pos, len, kind, n) ==
    EncodeNext(ZWrite([w EXCEPT !.fileSize = @ + n], o, n, kind), o, plan, pos, len, kind, n)

EncodeLoop(w, o, plan, pos, len, kind) ==
    IF w.err # "" \/ pos >= len THEN w
    ELSE EncodeChunk(w, o, plan, pos, len, kind, ReadLen(plan, pos, len))

RECURSIVE WriteHeaders(_, _, _, _)
WriteHeaders(w, o, shares, i) ==
    IF i >= totalShards(o) \/ w.err # "" THEN w
    ELSE WriteHeaders(ShardWrite(w, i, "header", ProvisionalHeader(o, i, shares[i])),
                      o, shares, i + 1)

\* The loop that appends the complete header to each shard in turn.
RECURSIVE WriteTrailers(_, _, _, _, _)
WriteTrailers(w, o, shares, digest, i) ==
    IF i >= totalShards(o) \/ w.err # "" THEN w
    ELSE WriteTrailers(
             ShardWrite(w, i, "trailer",
                        CompleteHeader(ProvisionalHeader(o, i, shares[i]), digest,
                                       w.fileSize, w.aeswritten, w.aesread)),
             o, shares, digest, i + 1)

NewWriters(sh, kf, failing, after) ==
    [sh |-> sh, err |-> "", kf |-> kf,
     budget |-> [i \in DOMAIN sh |-> IF i = failing THEN after ELSE -1],
     rsbuf |-> 0, rsout |-> 0, aesbuf |-> 0, aesread |-> 0, aeswritten |-> 0,
     chunks |-> <<>>, frames |-> <<>>, zx |-> 0, zz |-> 0, tableOff |-> 0,
     fileSize |-> 0, hashed |-> 0]

\* hash.Sum(nil) over what the loop fed the hash.
Digest(w) == Sha256(Slice(<<Run("X", 0, xlen)>>, 0, w.hashed))

\* What Encode returns and leaves behind, w being the writers at its return.
EncodeReturn(w, plan) ==
    /\ enc' = [done |-> TRUE, err |-> w.err,
               FileSize |-> IF w.err = "" THEN w.fileSize ELSE 0,
               FileHash |-> IF w.err = "" THEN Digest(w) ELSE NoHash,
               plan |-> plan]
    /\ shards' = w.sh
    /\ stream' = [kf |-> w.kf, chunks |-> w.chunks, frames |-> w.frames,
                  tableOff |-> w.tableOff, csize |-> w.aesread, esize |-> w.aeswritten]

\* Encode from the closing of the writers on.
EncodeClose(w, o, shares, plan) ==
    EncodeReturn(WriteTrailers(w, o, shares, Digest(w), 0), plan)

\* shamir.Split refuses fewer parts than the threshold, more than 255 parts
\* and a threshold under 2.
SplitFails(parts, threshold) == parts < threshold \/ parts > 255 \/ threshold < 2

\* reedsolomon.NewEncoder returns the error of rs.New: no data shard, or
\* more than 256 shards in all.
NewEncoderFails(dataShards, parityShards) == dataShards <= 0 \/ dataShards + parityShards > 256

\* Encode returning at the failure of reedsolomon.NewEncoder, when the
\* headers were written.
NoEncoder(w) ==
    IF w.err # "" THEN w ELSE [w EXCEPT !.err = "failed to create Reed-Solomon encoder"]

\* Encode(data, shards, key 1): writers is the number of shard writers the
\* caller passes, plan the behaviour of data, and shard writer failing (none
\* when negative) fails every Write after its first `after` ones.  The
\* random file key is key 1, wrapped under user key 1.
Encode(writers, plan, failing, after) ==
    /\ ~enc.done
    /\ IF writers # totalShards(opts)
       THEN /\ enc' = [NoEnc EXCEPT !.done = TRUE, !.err = "ErrShardCountMismatch", !.plan = plan]
            /\ shards' = [i \in 0 .. (writers - 1) |-> EmptyShard]
            /\ stream' = NoStream
       ELSE IF SplitFails(totalShards(opts), opts.KeyThreshold)
       THEN /\ enc' = [NoEnc EXCEPT !.done = TRUE, !.err = "failed to split file key", !.plan = plan]
            /\ shards' = [i \in 0 .. (writers - 1) |-> EmptyShard]
            /\ stream' = NoStream
       ELSE IF NewEncoderFails(opts.DataShards, opts.ParityShards)
       THEN EncodeReturn(
                NoEncoder(WriteHeaders(
                    NewWriters([i \in 0 .. (writers - 1) |-> EmptyShard], 1, failing, after),
                    opts, Split(1, 1, totalShards(opts), opts.KeyThreshold), 0)),
                plan)
       ELSE EncodeClose(
                RSClose(AESClose(ZClose(
                    EncodeLoop(
                        WriteHeaders(
                            NewWriters([i \in 0 .. (writers - 1) |-> EmptyShard], 1, failing, after),
                            opts, Split(1, 1, totalShards(opts), opts.KeyThreshold), 0),
                        opts, plan, 0, xlen, xkind),
                    opts), opts), opts),
                opts, Split(1, 1, totalShards(opts), opts.KeyThreshold), plan)
    /\ fin' = [i \in 0 .. (writers - 1) |-> ""]
    /\ UNCHANGED <<opts, medium, xlen, xkind, dmg, vres, rd, out, rot, hd, ae>>

----------------------------------------------------------------------------
\* Encoder.FinalizeHeader

\* The HeaderSize bytes that end the shard file.
LastRegion(s) ==
    IF s.trl.st # "none" THEN s.trl
    ELSE IF ShardLen(s) = HeaderSize THEN s.front
    ELSE BadRegion

\* FinalizeHeader as it would be without the return on a front header that
\* is already complete: the end of the shard is always read.
FinalizeAlways(s, m) ==
    IF ShardLen(s) = 0 THEN [err |-> "failed to read header at start of shard", s |-> s]
    ELSE IF Decode(s.front).err # ""
    THEN [err |-> "failed to decode header at start of shard", s |-> s]
    ELSE IF Decode(LastRegion(s)).err # ""
    THEN [err |-> "failed to decode header at end of shard", s |-> s]
    ELSE IF ~Decode(LastRegion(s)).h.IsComplete THEN [err |-> "ErrHeaderNotComplete", s |-> s]
    ELSE [err |-> "ok",
          s |-> [s EXCEPT !.front = HdrRegion(Decode(LastRegion(s)).h),
                          !.trl = IF m = "file" THEN NoRegion ELSE @]]

\* FinalizeHeader as it would be without the test of the trailer's
\* IsComplete: any header found at the end is copied to the front.
FinalizeUnchecked(s, m) ==
    IF ShardLen(s) = 0 THEN [err |-> "failed to read header at start of shard", s |-> s]
    ELSE IF Decode(s.front).err # ""
    THEN [err |-> "failed to decode header at start of shard", s |-> s]
    ELSE IF Decode(s.front).h.IsComplete THEN [err |-> "ok", s |-> s]
    ELSE IF Decode(LastRegion(s)).err # ""
    THEN [err |-> "failed to decode header at end of shard", s |-> s]
    ELSE [err |-> "ok",
          s |-> [s EXCEPT !.front = HdrRegion(Decode(LastRegion(s)).h),
                          !.trl = IF m = "file" THEN NoRegion ELSE @]]

\* FinalizeHeader(shard) on the shard file s of medium m: what it returns
\* ("ok" for nil) and the file it leaves.
FinalizeOutcome(s, m) ==
    IF ShardLen(s) = 0 THEN [err |-> "failed to read header at start of shard", s |-> s]
    ELSE IF Decode(s.front).err # ""
    THEN [err |-> "failed to decode header at start of shard", s |-> s]
    ELSE IF Decode(s.front).h.IsComplete THEN [err |-> "ok", s |-> s]
    ELSE IF Decode(LastRegion(s)).err # ""
    THEN [err |-> "failed to decode header at end of shard", s |-> s]
    ELSE IF ~Decode(LastRegion(s)).h.IsComplete THEN [err |-> "ErrHeaderNotComplete", s |-> s]
    ELSE [err |-> "ok",
          s |-> [s EXCEPT !.front = HdrRegion(Decode(LastRegion(s)).h),
                          !.trl = IF m = "file" THEN NoRegion ELSE @]]

FinalizeHeader(i) ==
    /\ enc.done
    /\ i \in DOMAIN shards
    /\ fin' = [fin EXCEPT ![i] = FinalizeOutcome(shards[i], medium).err]
    /\ shards' = [shards EXCEPT ![i] = FinalizeOutcome(shards[i], medium).s]
    /\ UNCHANGED <<opts, medium, xlen, xkind, stream, enc, dmg, vres, rd, out, rot, hd, ae>>

----------------------------------------------------------------------------
\* Damage to the stored shards, between Encode and the readers.

Untouched == ~vres.called /\ ~rd.called

\* Bytes of the payload of block k of shard i are overwritten.
CorruptBlock(i, k) ==
    /\ enc.done /\ enc.err = "" /\ Untouched /\ dmg < MaxDamage
    /\ i \in DOMAIN shards
    /\ k \in 1 .. Len(shards[i].blocks)
    /\ shards[i].blocks[k].ok
    /\ shards' = [shards EXCEPT ![i].blocks[k].ok = FALSE]
    /\ dmg' = dmg + 1
    /\ UNCHANGED <<opts, medium, xlen, xkind, stream, enc, fin, vres, rd, out, rot, hd, ae>>

\* The first bytes of shard i, the magic among them, are overwritten.
CorruptHeader(i) ==
    /\ enc.done /\ enc.err = "" /\ Untouched /\ dmg < MaxDamage
    /\ i \in DOMAIN shards
    /\ shards[i].front.st = "hdr"
    /\ shards' = [shards EXCEPT ![i].front = BadRegion]
    /\ dmg' = dmg + 1
    /\ UNCHANGED <<opts, medium, xlen, xkind, stream, enc, fin, vres, rd, out, rot, hd, ae>>

\* Shard i loses its end: only its first keep blocks stay.
TruncateShard(i, keep) ==
    /\ enc.done /\ enc.err = "" /\ Untouched /\ dmg < MaxDamage
    /\ i \in DOMAIN shards
    /\ shards[i].front.st # "none"
    /\ keep \in 0 .. (Len(shards[i].blocks) - 1)
    /\ shards' = [shards EXCEPT ![i] = [@ EXCEPT !.blocks = SubSeq(@, 1, keep),
                                                 !.part = 0, !.plo = 0, !.trl = NoRegion]]
    /\ dmg' = dmg + 1
    /\ UNCHANGED <<opts, medium, xlen, xkind, stream, enc, fin, vres, rd, out, rot, hd, ae>>

----------------------------------------------------------------------------
\* The verifier.

roundUpMult(num, multiple) ==
    IF multiple = 0 THEN num
    ELSE IF num % multiple = 0 THEN num
    ELSE num + multiple - (num % multiple)

NilResult ==
    [nil |-> TRUE, IsAvailable |-> FALSE, IsHeaderComplete |-> FALSE, ShardIndex |-> 0,
     BlocksCount |-> 0, BlocksFound |-> 0, BrokenBlocks |-> <<>>]

\* The bytes of shard s after its front region.
BodyLen(s) == Len(s.blocks) * FrameLen + s.part + RegionLen(s.trl)

\* The block loop as it would be if iBlk were advanced before the hash is
\* compared: a broken block is listed under the next index.
RECURSIVE VerifyBlocksLate(_, _, _, _, _)
VerifyBlocksLate(s, blockSize, pos, iBlk, res) ==
    LET afterBlock == Min(pos + blockSize, BodyLen(s))
        afterHash == Min(afterBlock + BlockOverhead, BodyLen(s))
        k == pos \div FrameLen
        intact == /\ blockSize = rsBlockSize
                  /\ pos % FrameLen = 0
                  /\ k < Len(s.blocks)
                  /\ s.blocks[k + 1].ok
    IN IF pos >= BodyLen(s) THEN res
       ELSE IF afterBlock >= BodyLen(s) THEN res
       ELSE VerifyBlocksLate(s, blockSize, afterHash, iBlk + 1,
                [res EXCEPT !.BrokenBlocks = IF intact THEN @ ELSE Append(@, iBlk + 1),
                            !.BlocksFound = iBlk + 1])

\* The block loop of VerifyShardIntegrity, at byte pos of the body of s.
RECURSIVE VerifyBlocks(_, _, _, _, _)
VerifyBlocks(s, blockSize, pos, iBlk, res) ==
    LET afterBlock == Min(pos + blockSize, BodyLen(s))
        afterHash == Min(afterBlock + BlockOverhead, BodyLen(s))
        k == pos \div FrameLen
        intact == /\ blockSize = rsBlockSize
                  /\ pos % FrameLen = 0
                  /\ k < Len(s.blocks)
                  /\ s.blocks[k + 1].ok
    IN IF pos >= BodyLen(s) THEN res
       ELSE IF afterBlock >= BodyLen(s) THEN res
       ELSE VerifyBlocks(s, blockSize, afterHash, iBlk + 1,
                [res EXCEPT !.BrokenBlocks = IF intact THEN @ ELSE Append(@, iBlk),
                            !.BlocksFound = iBlk + 1])

VerifyShardIntegrity(s) ==
    IF ShardLen(s) = 0 THEN [err |-> "failed to read header", res |-> NilResult]
    ELSE IF Decode(s.front).err # "" THEN [err |-> "failed to decode header", res |-> NilResult]
    ELSE LET hdr == Decode(s.front).h
             totalBlocksAcrossAllShards == 1 + (hdr.EncryptedSize \div hdr.RSBlockSize)
             res0 == [nil |-> FALSE, IsAvailable |-> TRUE, IsHeaderComplete |-> TRUE,
                      ShardIndex |-> hdr.ShardIndex,
                      BlocksCount |-> roundUpMult(totalBlocksAcrossAllShards \div hdr.ShardCount,
                                                  hdr.ShardCount),
                      BlocksFound |-> 0, BrokenBlocks |-> <<>>]
         IN [err |-> "", res |-> VerifyBlocks(s, hdr.RSBlockSize, 0, 0, res0)]

\* The ascending sequence of the members of a set of numbers.
RECURSIVE SeqOf(_)
SeqOf(S) ==
    IF S = {} THEN <<>>
    ELSE LET m == CHOOSE m \in S : \A x \in S : m <= x IN <<m>> \o SeqOf(S \ {m})

\* The loop of VerifyIntegrity over the shards of one block index.
RECURSIVE TallyBlock(_, _, _, _, _)
TallyBlock(results, ns, iBlk, iShard, blkTally) ==
    IF iShard > Len(results) THEN [tally |-> blkTally, ns |-> ns]
    ELSE LET res == results[iShard] IN
         IF res.nil THEN TallyBlock(results, ns, iBlk, iShard + 1, blkTally + 1)
         ELSE IF ns[iShard] >= Len(res.BrokenBlocks)
         THEN TallyBlock(results, ns, iBlk, iShard + 1, blkTally)
         ELSE LET iBlkSh == res.BrokenBlocks[ns[iShard] + 1] IN
              IF iBlkSh = iBlk THEN TallyBlock(results, ns, iBlk, iShard + 1, blkTally + 1)
              ELSE IF iBlk > iBlkSh
              THEN TallyBlock(results, [ns EXCEPT ![iShard] = @ + 1], iBlk, iShard + 1, blkTally)
              ELSE TallyBlock(results, ns, iBlk, iShard + 1, blkTally)

\* The loop of VerifyIntegrity over the block indices.
RECURSIVE TallyBlocks(_, _, _, _, _, _)
TallyBlocks(results, ns, iBlk, totalBlocks, parity, bad) ==
    IF iBlk >= totalBlocks THEN bad
    ELSE LET t == TallyBlock(results, ns, iBlk, 1, 0) IN
         TallyBlocks(results, t.ns, iBlk + 1, totalBlocks, parity,
                     IF t.tally > parity THEN Append(bad, iBlk) ELSE bad)

\* The value totalBlocks has after the loop over the supplied shards.
RECURSIVE SampleTotal(_, _, _)
SampleTotal(results, i, totalBlocks) ==
    IF i > Len(results) THEN totalBlocks
    ELSE SampleTotal(results, i + 1,
             IF ~results[i].nil /\ results[i].BlocksFound = results[i].BlocksCount
             THEN results[i].BlocksFound ELSE totalBlocks)

\* The zero value of ShardVerificationResult.
ZeroResult == [NilResult EXCEPT !.nil = FALSE]

NoVres ==
    [called |-> FALSE, err |-> "", input |-> <<>>, AllGood |-> FALSE, FullyReadable |-> FALSE,
     ByShard |-> <<>>, IrrecoverableBlocks |-> <<>>, results |-> <<>>]

\* VerifyIntegrity from the end of its loop over the shards on: results
\* holds a result (nil where the shard failed), missingCount the failures.
VerifyReport(o, input, results, missingCount, bad) ==
    IF Len(input) < o.DataShards \/ missingCount > o.ParityShards
    THEN [NoVres EXCEPT !.called = TRUE, !.err = "ErrNotEnoughShards", !.input = input]
    ELSE [called |-> TRUE, err |-> "", input |-> input,
          AllGood |-> /\ missingCount = 0
                      /\ ~\E j \in 1 .. Len(results) :
                             /\ ~results[j].nil
                             /\ \/ results[j].BlocksCount # results[j].BlocksFound
                                \/ Len(results[j].BrokenBlocks) > 0,
          FullyReadable |-> bad = <<>>,
          ByShard |-> [j \in 1 .. totalShards(o) |-> ZeroResult],
          IrrecoverableBlocks |-> bad,
          results |-> results]

VerifyResults(o, input, results, missingCount) ==
    VerifyReport(o, input, results, missingCount,
                 TallyBlocks(results, [j \in 1 .. totalShards(o) |-> 0], 0,
                             SampleTotal(results, 1, 0), o.ParityShards, <<>>))

VerifyEach(o, input, each) ==
    VerifyResults(o, input,
                  [j \in 1 .. totalShards(o) |->
                      IF j <= Len(input) /\ each[j].err = "" THEN each[j].res ELSE NilResult],
                  Cardinality({j \in 1 .. Len(input) : each[j].err # ""}))

\* Encoder.VerifyIntegrity(shards), the shards being those of the set S in
\* the order of their positions.
VerifyIntegrity(S) ==
    /\ enc.done /\ ~rd.called
    /\ S \subseteq DOMAIN shards
    /\ vres' = VerifyEach(opts, SeqOf(S),
                          [j \in 1 .. Cardinality(S) |-> VerifyShardIntegrity(shards[SeqOf(S)[j]])])
    /\ UNCHANGED <<opts, medium, xlen, xkind, shards, stream, enc, fin, dmg, rd, out, rot, hd, ae>>

----------------------------------------------------------------------------
\* The Reed-Solomon read side.  The layer's context rs holds BlockSize B,
\* DataShards D, the shard count N, outSize and, per shard slot, the shard
\* reader srcs[i]: a shard file or a ZeroReadSeeker of some Size.

ShardSrc(i) == [zero |-> FALSE, id |-> i, size |-> 0]

ZeroSrc(size) == [zero |-> TRUE, id |-> 0, size |-> size]

SrcLen(src, sh) == IF src.zero THEN src.size ELSE ShardLen(sh[src.id])

\* OffsetReader.Seek(offset, SeekStart) over a shard reader: the cursor the
\* reader ends at.  ZeroReadSeeker clamps it to [0, Size]; a file does not.
SeekShard(src, offset) ==
    IF src.zero THEN Max(0, Min(HeaderSize + offset, src.size)) ELSE HeaderSize + offset

\* shard.Read(bufs[i]) and shard.Read(hashes[i]) in Join, at cursor c.
ReadBlock(src, sh, c, B) ==
    LET len == SrcLen(src, sh)
        c1 == Min(c + B, len)
        c2 == Min(c1 + BlockOverhead, len)
        body == c - HeaderSize
        k == body \div FrameLen
        intact == /\ ~src.zero
                  /\ B = rsBlockSize
                  /\ body >= 0 /\ body % FrameLen = 0
                  /\ k < Len(sh[src.id].blocks)
                  /\ sh[src.id].blocks[k + 1].ok
    IN IF c >= len THEN [err |-> "failed to read from shard", intact |-> FALSE, lo |-> 0, next |-> c]
       ELSE IF c1 >= len
       THEN [err |-> "failed to read hash from shard", intact |-> FALSE, lo |-> 0, next |-> c1]
       ELSE [err |-> "", intact |-> intact,
             lo |-> IF intact THEN sh[src.id].blocks[k + 1].lo ELSE 0, next |-> c2]

\* Encoder.Join(dst, shards, outSize), stripe by stripe from the readers'
\* cursors cur: err, the bytes written to dst, the count of broken blocks.
\* JoinStripe is one pass of its loop, reads being what the shards returned.
RECURSIVE Join(_, _, _, _, _, _)
JoinStripe(rs, sh, reads, bytesLeft, brokenBlocks, data) ==
    LET ids == 0 .. (rs.N - 1)
        failing == {i \in ids : reads[i].err # ""}
        have == {i \in ids : reads[i].intact}
        los == {reads[i].lo : i \in have}
        broken == brokenBlocks + (rs.N - Cardinality(have))
        blockSize == Min(rs.B * rs.D, bytesLeft)
        piece == IF Cardinality(los) = 1
                 THEN <<Run("E", CHOOSE l \in los : TRUE, (CHOOSE l \in los : TRUE) + blockSize)>>
                 ELSE Junk(blockSize)
    IN IF failing # {}
       THEN [err |-> reads[CHOOSE i \in failing : \A j \in failing : i <= j].err,
             data |-> data, count |-> broken]
       ELSE IF Cardinality(have) < rs.N /\ Cardinality(have) < rs.D
       THEN [err |-> "reconstruct failed", data |-> data, count |-> broken]
       ELSE IF Cardinality(los) > 1 /\ Cardinality(have) > rs.D
       THEN [err |-> "verify failed after reconstruct", data |-> data, count |-> broken]
       ELSE IF bytesLeft - blockSize <= 0
       THEN [err |-> IF broken > 0 THEN "ErrCorruptionDetected" ELSE "",
             data |-> Cat(data, piece), count |-> broken]
       ELSE Join(rs, sh, [i \in ids |-> reads[i].next], bytesLeft - blockSize, broken,
                 Cat(data, piece))

\* A Join that counts the broken blocks of each stripe from zero.
JoinForgetful(rs, sh, cur, bytesLeft, brokenBlocks, data) ==
    JoinStripe(rs, sh, [i \in 0 .. (rs.N - 1) |-> ReadBlock(rs.srcs[i], sh, cur[i], rs.B)],
               bytesLeft, 0, data)

Join(rs, sh, cur, bytesLeft, brokenBlocks, data) ==
    JoinStripe(rs, sh, [i \in 0 .. (rs.N - 1) |-> ReadBlock(rs.srcs[i], sh, cur[i], rs.B)],
               bytesLeft, brokenBlocks, data)

\* Cap() of a new bytes.Buffer after Grow(n).
BufferCap(n) == IF n = 0 THEN 0 ELSE IF n <= 64 THEN 64 ELSE n

\* reedsolomon ReadSeeker.Read(p) from the return of Join on: j is what Join
\* returned, got the bytes p takes of the buffer.
RSReadCopy(got, off) == [n |-> BLen(got), err |-> "", data |-> got, off |-> off + BLen(got)]

RSReadJoined(j, off, bytesToDiscard, plen) ==
    IF j.err # "" THEN [n |-> 0, err |-> j.err, data |-> <<>>, off |-> off]
    ELSE RSReadCopy(Slice(j.data, bytesToDiscard, bytesToDiscard + plen), off)

\* reedsolomon ReadSeeker.Read(p) at currentOffset off, len(p) = plen.
RSRead(rs, sh, off, plen) ==
    LET stripe == rs.B * rs.D
        block == off \div stripe
        shardOffset == block * (rs.B + BlockOverhead)
        bytesToDiscard == off - block * stripe
        size == Min(plen, rs.outSize - off)
    IN IF off >= rs.outSize THEN [n |-> 0, err |-> "EOF", data |-> <<>>, off |-> off]
       ELSE RSReadJoined(Join(rs, sh,
                              [i \in 0 .. (rs.N - 1) |-> SeekShard(rs.srcs[i], shardOffset)],
                              BufferCap(size + bytesToDiscard), 0, <<>>),
                         off, bytesToDiscard, plen)

\* LimitReader.Read over a reader: the length of p handed down.
LimitLen(plen, limit) == IF plen > limit THEN limit ELSE plen

\* Read on the reader reedsolomon.NewReadSeeker returns (a LimitReader of
\* outSize over the ReadSeeker); r is the state of the whole reader.
RSLimitReturn(x, r) ==
    [n |-> x.n, err |-> x.err, data |-> x.data,
     r |-> [r EXCEPT !.rsOff = x.off, !.rsPos = @ + x.n]]

RSLimitRead(r, sh, plen) ==
    IF r.rsPos >= r.rs.outSize THEN [n |-> 0, err |-> "EOF", data |-> <<>>, r |-> r]
    ELSE RSLimitReturn(RSRead(r.rs, sh, r.rsOff, LimitLen(plen, r.rs.outSize)), r)

\* Seek on that reader; whence is "start", "current" or "end".
RSLimitSeek(r, offset, whence) ==
    LET target == CASE whence = "start"   -> offset
                    [] whence = "current" -> r.rsOff + offset
                    [] whence = "end"     -> r.rs.outSize + offset
    IN [r EXCEPT !.rsOff = target, !.rsPos = target]

----------------------------------------------------------------------------
\* The AES-GCM read side.

\* gcm.Open of one ciphertext chunk under nonce index: the chunks Encode
\* sealed that have these bytes, this nonce and this key.
Sealed(r, ciphertext, index) ==
    {j \in DOMAIN stream.chunks :
        /\ r.kf = stream.kf
        /\ stream.chunks[j].nonce = Nonce(index)
        /\ ciphertext = <<Run("E", stream.chunks[j].eoff,
                                   stream.chunks[j].eoff + r.chunkSize + Overhead)>>}

\* The decrypt loop of AESReader.Read over the n bytes read into b.  One
\* pass opens a chunk (AESChunks), drops the discard bytes and cuts the
\* plaintext to the room left in p (AESCut), and copies it to p (AESCopy).
RECURSIVE AESChunks(_, _, _, _, _, _, _, _)
AESCopy(r, b, n, i, index, p, written, plaintext) ==
    AESChunks(r, b, n, i + r.chunkSize + Overhead, index + 1, 0,
              PutAt(p, (i \div (r.chunkSize + Overhead)) * r.chunkSize, plaintext),
              written + BLen(plaintext))

AESCut(r, b, n, i, index, p, written, plain) ==
    AESCopy(r, b, n, i, index, p, written,
            IF BLen(plain) > BLen(p) - written THEN Slice(plain, 0, BLen(p) - written)
            ELSE plain)

AESOpened(r, b, n, i, index, discard, p, written, found) ==
    IF found = {}
    THEN [err |-> "message authentication failed", p |-> p, written |-> 0, discard |-> discard]
    ELSE AESCut(r, b, n, i, index, p, written,
                Slice(<<Run("Z", stream.chunks[CHOOSE j \in found : TRUE].zoff,
                                 stream.chunks[CHOOSE j \in found : TRUE].zoff + r.chunkSize)>>,
                      IF discard > 0 THEN discard ELSE 0, r.chunkSize))

AESChunks(r, b, n, i, index, discard, p, written) ==
    IF i >= n THEN [err |-> "", p |-> p, written |-> written, discard |-> discard]
    ELSE AESOpened(r, b, n, i, index, discard, p, written,
                   Sealed(r, Slice(b, i, i + r.chunkSize + Overhead), index))

\* AESReader.Read(p) from the return of the decrypt loop on.
AESReadReturn(d, r) ==
    IF d.err # ""
    THEN [n |-> 0, err |-> d.err, data |-> <<>>, r |-> [r EXCEPT !.aesDiscard = d.discard]]
    ELSE [n |-> d.written, err |-> "", data |-> Slice(d.p, 0, d.written),
          r |-> [r EXCEPT !.aesDiscard = d.discard]]

\* AESReader.Read(p) from the return of the source's Read on.
AESReadSource(x, blen, index, discard, plen) ==
    IF x.err # "" THEN [n |-> 0, err |-> x.err, data |-> <<>>, r |-> x.r]
    ELSE AESReadReturn(AESChunks(x.r, Cat(x.data, Junk(blen - x.n)), x.n, 0, index, discard,
                                 Junk(plen), 0),
                       x.r)

\* AESReader.Read(p), len(p) = plen: n, err, the bytes p[:n], the reader.
AESRead(r, sh, plen) ==
    AESReadSource(RSLimitRead(r, sh, ((plen \div r.chunkSize) + 1) * (r.chunkSize + Overhead)),
                  ((plen \div r.chunkSize) + 1) * (r.chunkSize + Overhead),
                  FromOffset(r.chunkSize, Overhead, r.rsOff), r.aesDiscard, plen)

\* AESReader.Seek
AESSeek(r, offset, whence) ==
    LET startOffset == CASE whence = "start"   -> offset
                         [] whence = "current" -> r.rsOff + offset
                         [] whence = "end"     -> r.fileSize + offset
        block == FromOffset(r.chunkSize, 0, startOffset)
        ciphertextOffset == GetOffset(r.chunkSize, Overhead, block)
    IN [RSLimitSeek(r, ciphertextOffset, "start")
           EXCEPT !.aesDiscard = startOffset - block * r.chunkSize]

----------------------------------------------------------------------------
\* The seekable zstd reader (a library) over the AES reader.

\* io.ReadFull of want bytes.
RECURSIVE ReadFull(_, _, _, _)
ReadFullNext(x, sh, want, got) ==
    IF x.err # "" THEN [err |-> x.err, data |-> got, r |-> x.r]
    ELSE IF x.n = 0 THEN [err |-> "no progress", data |-> got, r |-> x.r]
    ELSE ReadFull(x.r, sh, want, Cat(got, x.data))

ReadFull(r, sh, want, got) ==
    IF BLen(got) >= want THEN [err |-> "", data |-> got, r |-> r]
    ELSE ReadFullNext(AESRead(r, sh, want - BLen(got)), sh, want, got)

\* Seek to byte at of the compressed stream and read len bytes in full: no
\* error only when exactly those bytes of the stream come back.
ZFetched(x, from, to) ==
    IF x.err # "" THEN [err |-> x.err, r |-> x.r]
    ELSE IF x.data # <<Run("Z", from, to)>> THEN [err |-> "zstd: corrupt input", r |-> x.r]
    ELSE [err |-> "", r |-> x.r]

ZFetch(r, sh, at, whence, from, to) ==
    ZFetched(ReadFull(AESSeek(r, at, whence), sh, to - from, <<>>), from, to)

\* seekable.NewReader: the footer, then the seek table, are read from the end.
ZTable(footer, sh) ==
    IF footer.err # "" THEN footer
    ELSE ZFetch(footer.r, sh, 0 - ZTableLen(Len(stream.frames)), "end",
                stream.tableOff, stream.csize)

ZNewReader(r, sh) ==
    IF stream.csize < ZTableLen(Len(stream.frames)) THEN [err |-> "zstd: no seek table", r |-> r]
    ELSE ZTable(ZFetch(r, sh, 0 - 9, "end", stream.csize - 9, stream.csize), sh)

\* The decompressed size the seek table records.
ZSize == IF stream.frames = <<>> THEN 0
         ELSE stream.frames[Len(stream.frames)].xoff + stream.frames[Len(stream.frames)].xlen

\* Read(p) of the zstd reader at its offset r.zpos: the frame f holding the
\* offset is fetched and decoded, and what p takes of it is returned.
ZDecoded(x, zpos, end) ==
    IF x.err # "" THEN [n |-> 0, err |-> x.err, data |-> <<>>, r |-> x.r]
    ELSE [n |-> end - zpos, err |-> "", data |-> <<Run("X", zpos, end)>>,
          r |-> [x.r EXCEPT !.zpos = end]]

ZReadFrame(r, sh, plen, f) ==
    ZDecoded(ZFetch(r, sh, f.zoff, "start", f.zoff, f.zoff + f.zlen),
             r.zpos, Min(r.zpos + plen, f.xoff + f.xlen))

ZRead(r, sh, plen) ==
    IF r.zpos >= ZSize THEN [n |-> 0, err |-> "EOF", data |-> <<>>, r |-> r]
    ELSE ZReadFrame(r, sh, plen,
                    stream.frames[CHOOSE j \in DOMAIN stream.frames :
                                     /\ stream.frames[j].xoff <= r.zpos
                                     /\ r.zpos < stream.frames[j].xoff + stream.frames[j].xlen])

\* Read and Seek(offset, SeekStart) of the LimitReader NewReadSeeker returns.
LimitReturn(x) ==
    [n |-> x.n, err |-> x.err, data |-> x.data, r |-> [x.r EXCEPT !.pos = @ + x.n]]

LimitRead(r, sh, plen) ==
    IF r.pos >= r.limit THEN [n |-> 0, err |-> "EOF", data |-> <<>>, r |-> r]
    ELSE LimitReturn(ZRead(r, sh, LimitLen(plen, r.limit)))

LimitSeek(r, offset) == [r EXCEPT !.zpos = offset, !.pos = offset]

----------------------------------------------------------------------------
\* Encoder.NewReadSeeker

NoRd ==
    [called |-> FALSE, err |-> "", input |-> <<>>, key |-> 0, pieces |-> {}, hdr |-> NoHeader,
     rs |-> [B |-> 0, D |-> 0, N |-> 0, outSize |-> 0, srcs |-> <<>>],
     rsOff |-> 0, rsPos |-> 0, chunkSize |-> 0, fileSize |-> 0, kf |-> 0, aesDiscard |-> 0,
     zpos |-> 0, pos |-> 0, limit |-> 0]

NoOut == [ops |-> 0, seeks |-> 0, from |-> 0, data |-> <<>>, n |-> 0, err |-> "",
          eof |-> FALSE, failed |-> FALSE]

\* headers[j] after the loop over the supplied shards (input, 1-based here):
\* the zero Header where the shard could not be read or decoded.
ReadHeaders(input, sh, n) ==
    [j \in 1 .. n |->
        IF j <= Len(input) /\ ShardLen(sh[input[j]]) > 0 /\ Decode(sh[input[j]].front).err = ""
        THEN Decode(sh[input[j]].front).h
        ELSE NoHeader]

\* The positions whose shard the loop stored in shardReaders.
Placed(headers, n) ==
    {j \in DOMAIN headers : headers[j].IsComplete /\ headers[j].ShardIndex < n}

Last(js) == CHOOSE j \in js : \A k \in js : k <= j

\* The complete header the loop sampled last.
SampleHeader(headers, n) ==
    IF Placed(headers, n) = {} THEN NoHeader ELSE headers[Last(Placed(headers, n))]

\* shardReaders after the padding of the nil readers.
ShardReaders(input, headers, n) ==
    [i \in 0 .. (n - 1) |->
        LET js == {j \in Placed(headers, n) : headers[j].ShardIndex = i} IN
        IF js = {} THEN ZeroSrc(SampleHeader(headers, n).EncryptedSize)
        ELSE ShardSrc(input[Last(js)])]

\* The shares NewReadSeeker hands to shamir.Combine.
FileKeyPieces(headers) == {headers[j].FileKey : j \in {k \in DOMAIN headers : headers[k].IsComplete}}

\* The readers NewReadSeeker stacks, before the zstd reader is made.
Readers(o, input, key, headers, hdr) ==
    [called |-> TRUE, err |-> "", input |-> input, key |-> key,
     pieces |-> FileKeyPieces(headers), hdr |-> hdr,
     rs |-> [B |-> hdr.RSBlockSize, D |-> o.DataShards, N |-> totalShards(o),
             outSize |-> hdr.EncryptedSize,
             srcs |-> ShardReaders(input, headers, totalShards(o))],
     rsOff |-> 0, rsPos |-> 0, chunkSize |-> hdr.AESBlockSize,
     fileSize |-> hdr.CompressedSize,
     kf |-> OpenFileKey(Combine(FileKeyPieces(headers)), key), aesDiscard |-> 0,
     zpos |-> 0, pos |-> 0, limit |-> hdr.FileSize]

\* What NewReadSeeker returns once seekable.NewReader has returned z.
Opened(z) == IF z.err # "" THEN [z.r EXCEPT !.err = z.err] ELSE z.r

\* OpenHeaders as it would be without the count of the key pieces: every
\* set of pieces goes to Combine.
OpenHeadersUncounted(o, input, key, headers) ==
    IF Len(input) < o.DataShards
    THEN [NoRd EXCEPT !.called = TRUE, !.err = "ErrNotEnoughShards", !.input = input, !.key = key]
    ELSE IF OpenFileKey(Combine(FileKeyPieces(headers)), key) = 0
    THEN [NoRd EXCEPT !.called = TRUE, !.err = "failed to decrypt file key", !.input = input,
                      !.key = key, !.pieces = FileKeyPieces(headers)]
    ELSE Opened(ZNewReader(Readers(o, input, key, headers,
                                   SampleHeader(headers, totalShards(o))),
                           shards))

\* NewReadSeeker from the end of its loop over the shards on.
OpenHeaders(o, input, key, headers) ==
    IF Len(input) < o.DataShards
    THEN [NoRd EXCEPT !.called = TRUE, !.err = "ErrNotEnoughShards", !.input = input, !.key = key]
    ELSE IF Cardinality(FileKeyPieces(headers)) < o.KeyThreshold
    THEN [NoRd EXCEPT !.called = TRUE, !.err = "ErrNotEnoughKeyShards", !.input = input,
                      !.key = key]
    ELSE IF OpenFileKey(Combine(FileKeyPieces(headers)), key) = 0
    THEN [NoRd EXCEPT !.called = TRUE, !.err = "failed to decrypt file key", !.input = input,
                      !.key = key, !.pieces = FileKeyPieces(headers)]
    ELSE Opened(ZNewReader(Readers(o, input, key, headers,
                                   SampleHeader(headers, totalShards(o))),
                           shards))

\* NewReadSeeker(shards, key): the shards are those of the set S, in the
\* order of their positions.
NewReadSeeker(S, key) ==
    /\ enc.done /\ ~vres.called /\ ~rd.called
    /\ S \subseteq DOMAIN shards
    /\ rd' = OpenHeaders(opts, SeqOf(S), key, ReadHeaders(SeqOf(S), shards, totalShards(opts)))
    /\ out' = NoOut
    /\ UNCHANGED <<opts, medium, xlen, xkind, shards, stream, enc, fin, dmg, vres, rot, hd, ae>>

----------------------------------------------------------------------------
\* Key rotation: Encoder.RotateKeys and Encoder.UpdateShardKey.

NoRot ==
    [called |-> FALSE, err |-> "", input |-> <<>>, prev |-> 0, new |-> 0, gen |-> 0,
     splits |-> [i \in {} |-> NoShare], upd |-> [i \in {} |-> ""]]

\* readHeader(shards, totalShards): the headers of the supplied shards, and
\* an error when none of them is complete.
readHeader(input, sh, n) ==
    IF Placed(ReadHeaders(input, sh, n), n) = {}
    THEN [err |-> "NoCompleteHeader", headers |-> ReadHeaders(input, sh, n)]
    ELSE [err |-> "", headers |-> ReadHeaders(input, sh, n)]

\* combineHeaderKeys(headers, key, iv): the shares of the complete headers
\* are counted, combined, and the result opened under the user key.
combineHeaderKeys(headers, key, threshold) ==
    IF Cardinality(FileKeyPieces(headers)) < threshold
    THEN [err |-> "ErrNotEnoughKeyShards", kf |-> 0]
    ELSE IF OpenFileKey(Combine(FileKeyPieces(headers)), key) = 0
    THEN [err |-> "failed to decrypt file key", kf |-> 0]
    ELSE [err |-> "", kf |-> OpenFileKey(Combine(FileKeyPieces(headers)), key)]

\* RotateKeys from the return of combineHeaderKeys on: the file key is
\* sealed under the new user key and split anew.
RotateSplit(o, fileKey, r) ==
    IF fileKey.err # "" THEN [r EXCEPT !.err = "failed to combine header keys"]
    ELSE [r EXCEPT !.splits = SplitFileKey(fileKey.kf, r.new, totalShards(o), o.KeyThreshold,
                                           r.gen)]

\* RotateKeys from the return of readHeader on.
RotateCombine(o, hs, r) ==
    IF hs.err # "" THEN [r EXCEPT !.err = "failed to read header"]
    ELSE RotateSplit(o, combineHeaderKeys(hs.headers, r.prev, o.KeyThreshold), r)

\* RotateKeys as it would be if the errors of readHeader and of
\* combineHeaderKeys were dropped: the shares found are split in any case.
RotateKeysUnchecked(S, prev, new) ==
    /\ enc.done /\ Untouched
    /\ rot.gen < MaxRotations
    /\ S \subseteq DOMAIN shards
    /\ rot' = IF Cardinality(S) < opts.DataShards
              THEN [NoRot EXCEPT !.called = TRUE, !.err = "ErrNotEnoughShards",
                                 !.input = SeqOf(S), !.prev = prev, !.new = new,
                                 !.gen = rot.gen + 1, !.upd = rot.upd]
              ELSE [NoRot EXCEPT !.called = TRUE, !.input = SeqOf(S),
                                 !.prev = prev, !.new = new,
                                 !.gen = rot.gen + 1, !.upd = rot.upd,
                                 !.splits = SplitFileKey(1, new, totalShards(opts),
                                                         opts.KeyThreshold, rot.gen + 1)]
    /\ UNCHANGED <<opts, medium, xlen, xkind, shards, stream, enc, fin, dmg, vres, rd, out, hd, ae>>

\* RotateKeys(shards, previousKey, previousIv, newKey, newIv): the shards
\* are those of the set S in the order of their positions.
RotateKeys(S, prev, new) ==
    /\ enc.done /\ Untouched
    /\ rot.gen < MaxRotations
    /\ S \subseteq DOMAIN shards
    /\ rot' = IF Cardinality(S) < opts.DataShards
              THEN [NoRot EXCEPT !.called = TRUE, !.err = "ErrNotEnoughShards",
                                 !.input = SeqOf(S), !.prev = prev, !.new = new,
                                 !.gen = rot.gen + 1, !.upd = rot.upd]
              ELSE RotateCombine(opts, readHeader(SeqOf(S), shards, totalShards(opts)),
                                 [NoRot EXCEPT !.called = TRUE, !.input = SeqOf(S),
                                               !.prev = prev, !.new = new,
                                               !.gen = rot.gen + 1, !.upd = rot.upd])
    /\ UNCHANGED <<opts, medium, xlen, xkind, shards, stream, enc, fin, dmg, vres, rd, out, hd, ae>>

\* An UpdateShardKey that fills a new header instead of the one it parsed.
UpdateOutcomeFresh(s, newKeySplit) ==
    IF ShardLen(s) = 0 THEN [err |-> "failed to read header", s |-> s]
    ELSE IF Decode(s.front).err # "" THEN [err |-> "failed to decode header", s |-> s]
    ELSE [err |-> "ok", s |-> [s EXCEPT !.front = HdrRegion([NoHeader EXCEPT !.FileKey = newKeySplit])]]

\* UpdateShardKey(shard, newKeySplit) on the shard file s: what it returns
\* ("ok" for nil) and the file it leaves.
UpdateOutcome(s, newKeySplit) ==
    IF ShardLen(s) = 0 THEN [err |-> "failed to read header", s |-> s]
    ELSE IF Decode(s.front).err # "" THEN [err |-> "failed to decode header", s |-> s]
    ELSE [err |-> "ok",
          s |-> [s EXCEPT !.front = HdrRegion([Decode(s.front).h EXCEPT !.FileKey = newKeySplit])]]

\* UpdateShardKey(shard i, keySplits[i]), keySplits being what the last
\* RotateKeys returned.
UpdateShardKey(i) ==
    /\ enc.done /\ Untouched
    /\ rot.called /\ rot.err = ""
    /\ i \in DOMAIN shards /\ i \in DOMAIN rot.splits
    /\ shards' = [shards EXCEPT ![i] = UpdateOutcome(shards[i], rot.splits[i]).s]
    /\ rot' = [rot EXCEPT !.upd = [j \in DOMAIN shards |->
                                      IF j = i THEN UpdateOutcome(shards[i], rot.splits[i]).err
                                      ELSE IF j \in DOMAIN rot.upd THEN rot.upd[j] ELSE ""]]
    /\ UNCHANGED <<opts, medium, xlen, xkind, stream, enc, fin, dmg, vres, rd, out, hd, ae>>

----------------------------------------------------------------------------
\* Calls on the reader NewReadSeeker returned.

\* Buffer lengths callers read with.
ReadLens == {100, 4096, 32768}

\* Offsets callers seek to (those within the file).
SeekOffsets == {0, 50, 4096, 5000}

Usable == rd.called /\ rd.err = "" /\ out.ops < MaxOps /\ ~out.eof /\ ~out.failed

\* What a Read that returned x leaves behind.
ReadReturn(x) ==
    /\ rd' = x.r
    /\ out' = [out EXCEPT !.ops = @ + 1, !.data = Cat(@, x.data), !.n = x.n,
                          !.err = x.err, !.eof = (x.err = "EOF"),
                          !.failed = (x.err \notin {"", "EOF"})]

Read(plen) ==
    /\ Usable
    /\ ReadReturn(LimitRead(rd, shards, plen))
    /\ UNCHANGED <<opts, medium, xlen, xkind, shards, stream, enc, fin, dmg, vres, rot, hd, ae>>

Seek(offset) ==
    /\ Usable
    /\ offset <= rd.limit
    /\ rd' = LimitSeek(rd, offset)
    /\ out' = [out EXCEPT !.ops = @ + 1, !.seeks = @ + 1, !.from = offset, !.data = <<>>,
                          !.n = 0, !.err = ""]
    /\ UNCHANGED <<opts, medium, xlen, xkind, shards, stream, enc, fin, dmg, vres, rot, hd, ae>>

----------------------------------------------------------------------------
\* The AES layer on its own: an AESWriter is written and closed, and an
\* AESReader over a Membuf of the ciphertext it wrote is sought and read.
\* The chunk size is aesBlockSize, the key is the file key 1.

\* Most Write calls on the writer.
MaxCalls == 2

\* Lengths of p the writer is written with.
WriteLens == {500, 1024, 2100}

\* Lengths of p the reader is read with.
PlainLens == {100, 1024, 3000}

\* Offsets the reader is sought to, by whence.
SeekArgs ==
    [start |-> {0, 500, 1024, 1500, 2048}, current |-> {0, 100}, end |-> {0, 0 - 100}]

\* w: the writer; total, calls, retOK: the bytes written to it, the Write
\* calls made and whether each returned len(p); closed: Close was called.
\* Of the reader: cur, the plaintext position its callers are at (the offset
\* sought, plus what Read returned since); since, the Reads since the last
\* Seek; k, the length of p of the last Read; whence, arg, ret: the last Seek
\* and what it returned; prev: the reader before that Seek.
\* spos: where the last Seek of a Reed-Solomon reader put each shard reader.
\* joined: what a call of Join on its own returned and wrote to dst.
NoAe ==
    [w |-> NewWriters([i \in 0 .. 1 |-> EmptyShard], 1, 0 - 1, 0), total |-> 0, calls |-> 0,
     retOK |-> TRUE, closed |-> FALSE, cur |-> 0, since |-> 0, k |-> 0, whence |-> "",
     arg |-> 0, ret |-> 0, prev |-> NoRd, spos |-> 0,
     joined |-> [called |-> FALSE, err |-> "", count |-> 0, data |-> <<>>]]

\* What a Write that left the writer as w leaves behind: it returned len(p)
\* unless it failed.
WriterReturn(w, len) ==
    ae' = [ae EXCEPT !.w = w, !.total = @ + len, !.calls = @ + 1, !.retOK = @ /\ w.err = ""]

\* AESWriter.Write(p), len(p) = len
WriterWrite(len) ==
    /\ ~ae.closed
    /\ ae.calls < MaxCalls
    /\ WriterReturn(AESWrite(ae.w, opts, len), len)
    /\ UNCHANGED <<opts, medium, xlen, xkind, shards, stream, enc, fin, dmg, vres, rd, out, rot, hd>>

\* AESWriter.Close
WriterClose ==
    /\ ~ae.closed
    /\ ae' = [ae EXCEPT !.w = AESClose(ae.w, opts), !.closed = TRUE]
    /\ UNCHANGED <<opts, medium, xlen, xkind, shards, stream, enc, fin, dmg, vres, rd, out, rot, hd>>

\* aes.NewReader(buf, key, chunkSize, fileSize) over the ciphertext written,
\* buf rewound to its start.
NewReader ==
    /\ ae.closed
    /\ ~rd.called
    /\ stream' = [kf |-> ae.w.kf, chunks |-> ae.w.chunks, frames |-> <<>>, tableOff |-> 0,
                  csize |-> ae.w.aesread, esize |-> ae.w.aeswritten]
    /\ rd' = [NoRd EXCEPT !.called = TRUE, !.key = 1, !.kf = 1, !.chunkSize = aesBlockSize,
                          !.fileSize = ae.w.aesread]
    /\ UNCHANGED <<opts, medium, xlen, xkind, shards, enc, fin, dmg, vres, out, rot, hd, ae>>

\* Membuf.Read(p), len(p) = blen, of the Membuf holding the ciphertext; its
\* position is r.rsOff.
MemRead(r, blen) ==
    IF r.rsOff >= stream.esize THEN [n |-> 0, err |-> "EOF", data |-> <<>>, r |-> r]
    ELSE [n |-> Min(blen, stream.esize - r.rsOff), err |-> "",
          data |-> <<Run("E", r.rsOff, r.rsOff + Min(blen, stream.esize - r.rsOff))>>,
          r |-> [r EXCEPT !.rsOff = @ + Min(blen, stream.esize - r.rsOff)]]

\* A Read that numbers the chunks it opens from 0, whatever the position of
\* the Membuf.
AESReadMemCounted(r, plen) ==
    AESReadSource(MemRead(r, ((plen \div r.chunkSize) + 1) * (r.chunkSize + Overhead)),
                  ((plen \div r.chunkSize) + 1) * (r.chunkSize + Overhead),
                  FromOffset(r.chunkSize, Overhead, 0), r.aesDiscard, plen)

\* AESReader.Read(p), len(p) = plen, over the Membuf.
AESReadMem(r, plen) ==
    AESReadSource(MemRead(r, ((plen \div r.chunkSize) + 1) * (r.chunkSize + Overhead)),
                  ((plen \div r.chunkSize) + 1) * (r.chunkSize + Overhead),
                  FromOffset(r.chunkSize, Overhead, r.rsOff), r.aesDiscard, plen)

\* What AESReader.Seek returns: startOffset.
AESSeekReturn(r, offset, whence) ==
    CASE whence = "start"   -> offset
      [] whence = "current" -> r.rsOff + offset
      [] whence = "end"     -> r.fileSize + offset

\* The absolute plaintext offset a Seek is for.
Absolute(offset, whence) ==
    CASE whence = "start"   -> offset
      [] whence = "current" -> ae.cur + offset
      [] whence = "end"     -> stream.csize + offset

ReaderReturn(x, plen) ==
    /\ ReadReturn(x)
    /\ ae' = [ae EXCEPT !.k = plen, !.since = @ + 1, !.cur = @ + x.n]

ReaderRead(plen) ==
    /\ Usable
    /\ ae.closed
    /\ ReaderReturn(AESReadMem(rd, plen), plen)
    /\ UNCHANGED <<opts, medium, xlen, xkind, shards, stream, enc, fin, dmg, vres, rot, hd>>

ReaderSeek(offset, whence) ==
    /\ Usable
    /\ ae.closed
    /\ Absolute(offset, whence) >= 0
    /\ Absolute(offset, whence) <= stream.csize
    /\ rd' = AESSeek(rd, offset, whence)
    /\ out' = [out EXCEPT !.ops = @ + 1, !.seeks = @ + 1, !.from = Absolute(offset, whence),
                          !.data = <<>>, !.n = 0, !.err = ""]
    /\ ae' = [ae EXCEPT !.cur = Absolute(offset, whence), !.since = 0, !.whence = whence,
                        !.arg = offset, !.ret = AESSeekReturn(rd, offset, whence), !.prev = rd]
    /\ UNCHANGED <<opts, medium, xlen, xkind, shards, stream, enc, fin, dmg, vres, rot, hd>>

----------------------------------------------------------------------------
\* The Reed-Solomon layer on its own, stacked as Encode and NewReadSeeker
\* stack it: a Writer over shard files that hold their header, and the
\* readers over OffsetReaders past that header.  What is written is the
\* ciphertext stream, bytes [0, n).

\* Lengths of p the Reed-Solomon writer is written with.
RSWriteLens == {30, 1040, 4096, 9000}

\* reedsolomon Writer.Write(p), len(p) = len
RSWriterWrite(len) ==
    /\ ~ae.closed
    /\ ae.calls < MaxCalls
    /\ WriterReturn(RSWrite(ae.w, opts, len), len)
    /\ UNCHANGED <<opts, medium, xlen, xkind, shards, stream, enc, fin, dmg, vres, rd, out, rot, hd>>

\* reedsolomon Writer.Close; the shard files are then what the readers get.
RSWriterClose ==
    /\ ~ae.closed
    /\ LET w == RSClose(ae.w, opts)
       IN /\ ae' = [ae EXCEPT !.w = w, !.closed = TRUE]
          /\ shards' = w.sh
    /\ stream' = [NoStream EXCEPT !.esize = ae.total]
    /\ UNCHANGED <<opts, medium, xlen, xkind, enc, fin, dmg, vres, rd, out, rot, hd>>

\* Bytes of the payload of block k of shard i are overwritten, once the
\* writer is closed and before anything is read.
RSCorruptBlock(i, k) ==
    /\ ae.closed /\ ~rd.called /\ ~ae.joined.called /\ dmg < MaxDamage
    /\ i \in DOMAIN shards
    /\ k \in 1 .. Len(shards[i].blocks)
    /\ shards[i].blocks[k].ok
    /\ shards' = [shards EXCEPT ![i].blocks[k].ok = FALSE]
    /\ dmg' = dmg + 1
    /\ UNCHANGED <<opts, medium, xlen, xkind, stream, enc, fin, vres, rd, out, rot, hd, ae>>

\* The context of the layer over every shard, for outSize bytes.
RSContext(o, outSize) ==
    [B |-> rsBlockSize, D |-> o.DataShards, N |-> totalShards(o), outSize |-> outSize,
     srcs |-> [i \in ShardIds(o) |-> ShardSrc(i)]]

\* reedsolomon.NewReadSeeker(rs, readers, len(data)) over the shards.
RSNewReadSeeker ==
    /\ ae.closed
    /\ ~rd.called
    /\ rd' = [NoRd EXCEPT !.called = TRUE, !.rs = RSContext(opts, ae.total)]
    /\ UNCHANGED <<opts, medium, xlen, xkind, shards, stream, enc, fin, dmg, vres, out, rot, hd, ae>>

\* Read(p), len(p) = plen, on the reader NewReadSeeker returned.
RSReaderRead(plen) ==
    /\ Usable
    /\ ae.closed
    /\ ReaderReturn(RSLimitRead(rd, shards, plen), plen)
    /\ UNCHANGED <<opts, medium, xlen, xkind, shards, stream, enc, fin, dmg, vres, rot, hd>>

\* Where ReadSeeker.Seek puts each shard reader for offset.
RSShardOffset(rs, offset) == (offset \div (rs.B * rs.D)) * (rs.B + BlockOverhead)

\* Seek(offset, whence) on that reader: it returns the position of the
\* LimitReader.
RSReaderSeek(offset, whence) ==
    /\ Usable
    /\ ae.closed
    /\ LET r == RSLimitSeek(rd, offset, whence)
       IN /\ r.rsOff >= 0
          /\ r.rsOff <= rd.rs.outSize
          /\ rd' = r
          /\ out' = [out EXCEPT !.ops = @ + 1, !.seeks = @ + 1, !.from = r.rsOff,
                                !.data = <<>>, !.n = 0, !.err = ""]
          /\ ae' = [ae EXCEPT !.cur = r.rsOff, !.since = 0, !.whence = whence,
                              !.arg = offset, !.ret = r.rsPos, !.prev = rd,
                              !.spos = RSShardOffset(r.rs, r.rsOff)]
    /\ UNCHANGED <<opts, medium, xlen, xkind, shards, stream, enc, fin, dmg, vres, rot, hd>>

\* Offsets the Reed-Solomon reader is sought to, by whence.
RSSeekArgs == [start |-> {0, 1040, 4096, 5000}, end |-> {0, 0 - 1040}]

\* Encoder.Join(dst, readers, outSize) over every shard from its first block.
RSJoin ==
    /\ ae.closed
    /\ ~rd.called /\ ~ae.joined.called
    /\ ae.total > 0
    /\ LET j == Join(RSContext(opts, ae.total), shards,
                     [i \in ShardIds(opts) |-> SeekShard(ShardSrc(i), 0)], ae.total, 0, <<>>)
       IN ae' = [ae EXCEPT !.joined = [called |-> TRUE, err |-> j.err, count |-> j.count,
                                       data |-> j.data]]
    /\ UNCHANGED <<opts, medium, xlen, xkind, shards, stream, enc, fin, dmg, vres, rd, out, rot, hd>>

----------------------------------------------------------------------------
\* The header codec at the level of bytes.  A header h comes with dlen, the
\* length of msgpack.Marshal(h), which grows with the byte slices FileHash
\* and FileKey.  A region of HeaderSize bytes is told by: magic, whether its
\* bytes [0, 8) are MagicBytes; b8 and b9, its bytes 8 and 9; and desc, dlen,
\* n: its bytes from 10 on are the first n bytes of the dlen-byte descriptor
\* of desc (n = 0: they are padding).

NoBuf == [magic |-> FALSE, b8 |-> 0, b9 |-> 0, desc |-> NoHeader, dlen |-> 0, n |-> 0]

\* binary.LittleEndian.PutUint16(buf[8:10], uint16(v))
PutUint16(buf, v) == [buf EXCEPT !.b8 = v % 256, !.b9 = (v \div 256) % 256]

\* binary.LittleEndian.Uint16(data[8:10])
Uint16(buf) == buf.b8 + 256 * buf.b9

\* Header.Encode of h: copy(buf[10:], data) copies what fits.
HeaderEncode(h, dlen) ==
    IF dlen > HeaderSize - 8 THEN [err |-> "ErrInvalidHeaderSize", buf |-> NoBuf]
    ELSE [err |-> "",
          buf |-> PutUint16([magic |-> TRUE, b8 |-> 0, b9 |-> 0, desc |-> h, dlen |-> dlen,
                             n |-> Min(dlen, HeaderSize - 10)], dlen)]

\* msgpack.Unmarshal(data[10:10+dataLen], h) into target: seen bytes of the
\* descriptor lie in the slice.  A whole descriptor decodes, whatever
\* follows it; a cut one fails after the fields before the cut were set.
Unmarshal(buf, seen, target) ==
    IF buf.dlen > 0 /\ seen >= buf.dlen THEN [panic |-> FALSE, err |-> "", h |-> buf.desc]
    ELSE IF seen = 0 THEN [panic |-> FALSE, err |-> "msgpack", h |-> target]
    ELSE [panic |-> FALSE, err |-> "msgpack",
          h |-> [target EXCEPT !.ShardIndex = buf.desc.ShardIndex]]

\* Header.Decode(data) into target, data being the region in a slice of
\* capacity cap: slicing data[10:10+dataLen] past cap panics.
HeaderDecode(buf, cap, target) ==
    IF ~buf.magic THEN [panic |-> FALSE, err |-> "ErrUnrecognizedMagic", h |-> target]
    ELSE IF 10 + Uint16(buf) > cap THEN [panic |-> TRUE, err |-> "", h |-> target]
    ELSE Unmarshal(buf, Min(Uint16(buf), buf.n), target)

NoHd ==
    [stage |-> "new", h |-> NoHeader, dlen |-> 0, encErr |-> "", buf |-> NoBuf,
     written |-> FALSE, cap |-> 0, target |-> NoHeader, panic |-> FALSE, decErr |-> "",
     got |-> NoHeader]

\* b, err := h.Encode()
EncodeHeader ==
    /\ hd.stage = "new"
    /\ hd' = [hd EXCEPT !.stage = "encoded",
                        !.encErr = HeaderEncode(hd.h, hd.dlen).err,
                        !.buf = HeaderEncode(hd.h, hd.dlen).buf]
    /\ UNCHANGED <<opts, medium, xlen, xkind, shards, stream, enc, fin, dmg, vres, rd, out, rot, ae>>

\* The first ten bytes of the region are written over: the magic is kept or
\* lost and the length field becomes v.
OverwriteRegion(magic, v) ==
    /\ hd.stage = "encoded" /\ hd.encErr = "" /\ ~hd.written
    /\ hd' = [hd EXCEPT !.written = TRUE, !.buf = PutUint16([@ EXCEPT !.magic = magic], v)]
    /\ UNCHANGED <<opts, medium, xlen, xkind, shards, stream, enc, fin, dmg, vres, rd, out, rot, ae>>

\* err := target.Decode(data), data of capacity cap.
DecodeHeader(cap) ==
    /\ hd.stage = "encoded" /\ hd.encErr = ""
    /\ hd' = [hd EXCEPT !.stage = "decoded", !.cap = cap,
                        !.panic = HeaderDecode(hd.buf, cap, hd.target).panic,
                        !.decErr = HeaderDecode(hd.buf, cap, hd.target).err,
                        !.got = HeaderDecode(hd.buf, cap, hd.target).h]
    /\ UNCHANGED <<opts, medium, xlen, xkind, shards, stream, enc, fin, dmg, vres, rd, out, rot, ae>>

----------------------------------------------------------------------------
\* Specifications.

Init ==
    /\ opts \in Configs
    /\ medium \in {"membuf", "file"}
    /\ xlen \in Sizes
    /\ xkind \in {"random", "zeros"}
    /\ shards = [i \in {} |-> EmptyShard]
    /\ stream = NoStream
    /\ enc = NoEnc
    /\ fin = [i \in {} |-> ""]
    /\ dmg = 0
    /\ vres = NoVres
    /\ rd = NoRd
    /\ out = NoOut
    /\ rot = NoRot
    /\ hd = NoHd
    /\ ae = NoAe

Next ==
    \/ \E writers \in {totalShards(opts) - 1, totalShards(opts)}, plan \in {"buffer", "short"},
          failing \in {-1} \cup ShardIds(opts), after \in 0 .. MaxWrites :
            Encode(writers, plan, failing, after)
    \/ \E i \in ShardIds(opts) : FinalizeHeader(i)
    \/ \E i \in ShardIds(opts), k \in 1 .. MaxBlocks : CorruptBlock(i, k)
    \/ \E i \in ShardIds(opts) : CorruptHeader(i)
    \/ \E i \in ShardIds(opts), keep \in 0 .. (MaxBlocks - 1) : TruncateShard(i, keep)
    \/ \E S \in SUBSET ShardIds(opts) : VerifyIntegrity(S)
    \/ \E S \in SUBSET ShardIds(opts), key \in UserKeys : NewReadSeeker(S, key)
    \/ \E plen \in ReadLens : Read(plen)
    \/ \E offset \in SeekOffsets : Seek(offset)
    \/ \E S \in SUBSET ShardIds(opts), prev \in UserKeys, new \in UserKeys : RotateKeys(S, prev, new)
    \/ \E i \in ShardIds(opts) : UpdateShardKey(i)

Spec == Init /\ [][Next]_vars

\* Encoding (with every failure of a shard writer), finalizing and opening.
NextOpen ==
    \/ \E writers \in {totalShards(opts) - 1, totalShards(opts)}, plan \in {"buffer", "short"},
          failing \in {-1} \cup ShardIds(opts), after \in 0 .. MaxWrites :
            Encode(writers, plan, failing, after)
    \/ \E i \in ShardIds(opts) : FinalizeHeader(i)
    \/ \E i \in ShardIds(opts) : CorruptHeader(i)
    \/ \E S \in SUBSET ShardIds(opts), key \in UserKeys : NewReadSeeker(S, key)

\* One plaintext of a single stripe and one of several.
InitOpen == Init /\ xkind = "random" /\ xlen \in {100, 8192}

SpecOpen == InitOpen /\ [][NextOpen]_vars

\* A successful Encode, then reading through the reader.
NextRead ==
    \/ \E plan \in {"buffer", "short"} : Encode(totalShards(opts), plan, -1, 0)
    \/ \E i \in ShardIds(opts) : FinalizeHeader(i)
    \/ \E S \in SUBSET ShardIds(opts) : NewReadSeeker(S, 1)
    \/ \E plen \in ReadLens : Read(plen)
    \/ \E offset \in SeekOffsets : Seek(offset)

SpecRead == Init /\ [][NextRead]_vars

\* A successful Encode, damage to the stored shards, then reading.
NextDamage ==
    \/ Encode(totalShards(opts), "buffer", -1, 0)
    \/ \E i \in ShardIds(opts) : FinalizeHeader(i)
    \/ \E i \in ShardIds(opts), k \in 1 .. MaxBlocks : CorruptBlock(i, k)
    \/ \E S \in SUBSET ShardIds(opts) : NewReadSeeker(S, 1)
    \/ \E plen \in ReadLens : Read(plen)

SpecDamage == Init /\ [][NextDamage]_vars

\* A successful Encode, damage to the stored shards, then the verifier.
NextVerify ==
    \/ Encode(totalShards(opts), "buffer", -1, 0)
    \/ \E i \in ShardIds(opts) : FinalizeHeader(i)
    \/ \E i \in ShardIds(opts), k \in 1 .. MaxBlocks : CorruptBlock(i, k)
    \/ \E i \in ShardIds(opts) : CorruptHeader(i)
    \/ \E i \in ShardIds(opts), keep \in 0 .. (MaxBlocks - 1) : TruncateShard(i, keep)
    \/ \E S \in SUBSET ShardIds(opts) : VerifyIntegrity(S)

\* Plaintexts of one stripe and of several, on shards that keep their trailer.
InitVerify == Init /\ medium = "membuf" /\ xkind = "random" /\ xlen \in {3922, 8192, 16384}

SpecVerify == InitVerify /\ [][NextVerify]_vars

\* A successful Encode, finalizing, rotating the keys, then opening.
NextRotate ==
    \/ Encode(totalShards(opts), "buffer", -1, 0)
    \/ \E i \in ShardIds(opts) : FinalizeHeader(i)
    \/ \E S \in SUBSET ShardIds(opts), prev \in UserKeys, new \in UserKeys : RotateKeys(S, prev, new)
    \/ \E i \in ShardIds(opts) : UpdateShardKey(i)
    \/ \E key \in UserKeys : NewReadSeeker(ShardIds(opts), key)
    \/ \E plen \in ReadLens : Read(plen)

\* One plaintext of a single zstd frame and one of several.
InitRotate == Init /\ medium = "membuf" /\ xkind = "random" /\ xlen \in {100, 8192}

SpecRotate == InitRotate /\ [][NextRotate]_vars

\* The verifier on the shards of one plaintext of several stripes.
InitShard == Init /\ medium = "membuf" /\ xkind = "random" /\ xlen = 8192

SpecShard == InitShard /\ [][NextVerify]_vars

\* Encode under shard counts whose sum passes 255, and under ordinary ones,
\* with as many writers as the sum and as many as the encoder counts.
WideConfigs ==
    Configs \cup { [DataShards |-> 200, ParityShards |-> 58, KeyThreshold |-> 2],
                   [DataShards |-> 255, ParityShards |-> 2, KeyThreshold |-> 2],
                   [DataShards |-> 255, ParityShards |-> 1, KeyThreshold |-> 2] }

InitCount ==
    /\ opts \in WideConfigs
    /\ medium \in {"membuf", "file"}
    /\ xlen \in {0, 100}
    /\ xkind \in {"random", "zeros"}
    /\ shards = [i \in {} |-> EmptyShard]
    /\ stream = NoStream
    /\ enc = NoEnc
    /\ fin = [i \in {} |-> ""]
    /\ dmg = 0
    /\ vres = NoVres
    /\ rd = NoRd
    /\ out = NoOut
    /\ rot = NoRot
    /\ hd = NoHd
    /\ ae = NoAe

NextCount ==
    \/ \E writers \in {opts.DataShards + opts.ParityShards, totalShards(opts),
                        totalShards(opts) + 1},
          plan \in {"buffer", "short"} :
            Encode(writers, plan, -1, 0)
    \/ \E i \in ShardIds(opts) : FinalizeHeader(i)

SpecCount == InitCount /\ [][NextCount]_vars

\* Headers of every descriptor length around the room a region has, encoded,
\* written over or not, and decoded from slices of two capacities.
DescLens == {150, 1013, 1014, 1015, 1016, 1017}

LenFields == {0, 100, 150, 1014, 1015, 2000, 65535}

Caps == {HeaderSize, 2 * HeaderSize}

Targets == {NoHeader, [NoHeader EXCEPT !.ShardIndex = 7, !.ShardCount = 9]}

InitHeader ==
    /\ opts \in Configs
    /\ medium = "membuf"
    /\ xlen = 0
    /\ xkind = "zeros"
    /\ shards = [i \in {} |-> EmptyShard]
    /\ stream = NoStream
    /\ enc = NoEnc
    /\ fin = [i \in {} |-> ""]
    /\ dmg = 0
    /\ vres = NoVres
    /\ rd = NoRd
    /\ out = NoOut
    /\ rot = NoRot
    /\ hd \in {[NoHd EXCEPT !.h = ProvisionalHeader(opts, i,
                                    Split(1, 1, totalShards(opts), opts.KeyThreshold)[i]),
                             !.dlen = n, !.target = t] :
                  i \in ShardIds(opts), n \in DescLens, t \in Targets}
    /\ ae = NoAe

NextHeader ==
    \/ EncodeHeader
    \/ \E magic \in BOOLEAN, v \in LenFields : OverwriteRegion(magic, v)
    \/ \E cap \in Caps : DecodeHeader(cap)

SpecHeader == InitHeader /\ [][NextHeader]_vars

\* The AES layer on its own: one writer, then one reader.
InitAES ==
    /\ Init
    /\ opts.DataShards = 1 /\ opts.ParityShards = 1
    /\ medium = "membuf" /\ xkind = "random" /\ xlen = 100

NextAES ==
    \/ \E len \in WriteLens : WriterWrite(len)
    \/ WriterClose
    \/ NewReader
    \/ \E plen \in PlainLens : ReaderRead(plen)
    \/ \E whence \in DOMAIN SeekArgs : \E offset \in SeekArgs[whence] : ReaderSeek(offset, whence)

SpecAES == InitAES /\ [][NextAES]_vars

\* The Reed-Solomon layer on its own: one writer over shards with headers,
\* then one reader over the shards it wrote.
InitRS ==
    /\ opts \in Configs
    /\ medium = "membuf"
    /\ xlen = 100
    /\ xkind = "random"
    /\ shards = [i \in {} |-> EmptyShard]
    /\ stream = NoStream
    /\ enc = NoEnc
    /\ fin = [i \in {} |-> ""]
    /\ dmg = 0
    /\ vres = NoVres
    /\ rd = NoRd
    /\ out = NoOut
    /\ rot = NoRot
    /\ hd = NoHd
    /\ ae = [NoAe EXCEPT !.w = WriteHeaders(
                                   NewWriters([i \in ShardIds(opts) |-> EmptyShard], 1, 0 - 1, 0),
                                   opts, Split(1, 1, totalShards(opts), opts.KeyThreshold), 0)]

NextRS ==
    \/ \E len \in RSWriteLens : RSWriterWrite(len)
    \/ RSWriterClose
    \/ RSNewReadSeeker
    \/ \E plen \in ReadLens : RSReaderRead(plen)
    \/ \E whence \in DOMAIN RSSeekArgs : \E offset \in RSSeekArgs[whence] :
          RSReaderSeek(offset, whence)

SpecRS == InitRS /\ [][NextRS]_vars

\* The same writer, then damage to the shards and one Join over them.
NextJoin ==
    \/ \E len \in RSWriteLens : RSWriterWrite(len)
    \/ RSWriterClose
    \/ \E i \in ShardIds(opts), k \in 1 .. MaxBlocks : RSCorruptBlock(i, k)
    \/ RSJoin

SpecJoin == InitRS /\ [][NextJoin]_vars

----------------------------------------------------------------------------
\* The LimitReader on its own, over a Membuf that may be longer than the
\* limit.  The Membuf holds stream.esize bytes and is at position rd.rsOff;
\* rd.limit and rd.pos are the fields of the LimitReader.  Of each call,
\* ae.whence is "read" or the whence of the Seek, ae.arg its offset, ae.ret
\* what the Seek returned, ae.k the length of p, ae.prev the reader before.

\* Lengths of the Membuf.
MemSizes == {0, 100, 300}

\* Limits the reader is made with.
Limits == {0, 100, 250}

\* Lengths of p the reader is read with.
LimitReadLens == {60, 100, 400}

\* Offsets the reader is sought to, by whence.
LimitSeekArgs == [start |-> {0, 60, 100, 150}, current |-> {0, 40}, end |-> {0, 0 - 40}]

\* Membuf.Seek(offset, whence): the position it sets and returns.
MemSeek(r, offset, whence) ==
    CASE whence = "start"   -> offset
      [] whence = "current" -> r.rsOff + offset
      [] whence = "end"     -> stream.esize + offset

\* NewLimitReader(reader, limit) over a rewound Membuf of size bytes.
NewLimitReader(size, limit) ==
    /\ ~rd.called
    /\ stream' = [NoStream EXCEPT !.esize = size]
    /\ rd' = [NoRd EXCEPT !.called = TRUE, !.limit = limit]
    /\ UNCHANGED <<opts, medium, xlen, xkind, shards, enc, fin, dmg, vres, out, rot, hd, ae>>

\* LimitReader.Read(p), len(p) = plen
LimitReaderRead(plen) ==
    /\ Usable
    /\ LET x == IF rd.pos >= rd.limit THEN [n |-> 0, err |-> "EOF", data |-> <<>>, r |-> rd]
                ELSE LimitReturn(MemRead(rd, LimitLen(plen, rd.limit)))
       IN /\ ReadReturn(x)
          /\ ae' = [ae EXCEPT !.whence = "read", !.k = plen, !.prev = rd]
    /\ UNCHANGED <<opts, medium, xlen, xkind, shards, stream, enc, fin, dmg, vres, rot, hd>>

\* LimitReader.Seek(offset, whence)
LimitReaderSeek(offset, whence) ==
    /\ Usable
    /\ LET n == IF whence = "end" THEN MemSeek(rd, rd.limit + offset, "start")
                ELSE MemSeek(rd, offset, whence)
       IN /\ n >= 0
          /\ rd' = [rd EXCEPT !.rsOff = n, !.pos = n]
          /\ out' = [out EXCEPT !.ops = @ + 1, !.seeks = @ + 1, !.from = n, !.data = <<>>,
                                !.n = 0, !.err = ""]
          /\ ae' = [ae EXCEPT !.whence = whence, !.arg = offset, !.ret = n, !.prev = rd]
    /\ UNCHANGED <<opts, medium, xlen, xkind, shards, stream, enc, fin, dmg, vres, rot, hd>>

InitLimit ==
    /\ InitRS
    /\ opts.DataShards = 1 /\ opts.ParityShards = 1

NextLimit ==
    \/ \E size \in MemSizes, limit \in Limits : NewLimitReader(size, limit)
    \/ \E plen \in LimitReadLens : LimitReaderRead(plen)
    \/ \E whence \in DOMAIN LimitSeekArgs : \E offset \in LimitSeekArgs[whence] :
          LimitReaderSeek(offset, whence)

SpecLimit == InitLimit /\ [][NextLimit]_vars

----------------------------------------------------------------------------
\* Vocabulary of the properties.

\* The plaintext handed to Encode.
X == IF xlen = 0 THEN <<>> ELSE <<Run("X", 0, xlen)>>

\* The positions of the shards handed to NewReadSeeker, and those among
\* them whose front header was complete then (their share was collected).
Supplied == {rd.input[j] : j \in DOMAIN rd.input}

CompleteAtOpen == {i \in Supplied : \E p \in rd.pieces : p.x = i + 1}

\* The number of stripes Encode wrote to every shard.
Stripes ==
    (stream.esize + rsBlockSize * opts.DataShards - 1) \div (rsBlockSize * opts.DataShards)

\* The framed block of stripe k (from 1) on shard i is gone or fails its hash.
Bad(i, k) == k > Len(shards[i].blocks) \/ ~shards[i].blocks[k].ok

\* The front header of shard i parses and is complete.
CompleteFront(i) == shards[i].front.st = "hdr" /\ shards[i].front.h.IsComplete

\* What the reader has delivered since the last Seek is the plaintext from
\* the offset sought, and end-of-stream came at the end of the plaintext.
DeliversX ==
    /\ ~out.failed
    /\ out.data = Slice(X, out.from, out.from + BLen(out.data))
    /\ (out.eof => out.from + BLen(out.data) = xlen)

----------------------------------------------------------------------------
\* Round trip.

\* C1: Encode returns FileSize = n and FileHash = SHA-256(X), and after
\* FinalizeHeader on every shard, NewReadSeeker over all the shards with the
\* user key returns a reader that, read to end-of-stream, delivers exactly X.
C1_RoundTrip ==
    /\ (enc.done /\ enc.err = "") => (enc.FileSize = xlen /\ enc.FileHash = Sha256(X))
    /\ (rd.called /\ rd.key = 1 /\ CompleteAtOpen = ShardIds(opts) /\ out.seeks = 0)
          => (rd.err = "" /\ DeliversX)

\* C2: on the reader over all the finalized shards of a plaintext Encode
\* read in full chunks, a Seek to an offset in [0, n] followed by reads
\* delivers X from that offset on, up to n.
C2_SeekEquivalence ==
    (rd.called /\ rd.err = "" /\ enc.plan = "buffer" /\ CompleteAtOpen = ShardIds(opts)
       /\ out.seeks > 0)
        => DeliversX

\* C3: NewReadSeeker over a proper subset of the finalized shards, at least D
\* of them and at least t complete headers among them, returns a reader whose
\* full read delivers X: the zero reader put in each missing slot reads as an
\* erasure, never as an end of stream.
C3_SubsetDecode ==
    (rd.called /\ rd.key = 1 /\ enc.plan = "buffer" /\ out.seeks = 0
       /\ Supplied # ShardIds(opts) /\ CompleteAtOpen = Supplied
       /\ Cardinality(Supplied) >= opts.DataShards
       /\ Cardinality(Supplied) >= opts.KeyThreshold)
        => (rd.err = "" /\ DeliversX)

Unrecoverable == {"reconstruct failed", "verify failed after reconstruct"}

\* The shard slots of the reader whose block of stripe k is erased: a zero
\* reader stands in the slot, or the block fails its hash.
Erased(k) == {i \in 0 .. (rd.rs.N - 1) : rd.rs.srcs[i].zero \/ Bad(rd.rs.srcs[i].id, k)}

\* C5: when more than P blocks of the last stripe are erased, the read of
\* the seek table, which covers that stripe, fails with an Unrecoverable
\* error; and when more than P blocks of any stripe are erased, no byte is
\* delivered that differs from X.
C5_UnrecoverableStripe ==
    (rd.called /\ rd.rs.N > 0 /\ Stripes > 0)
        => /\ Cardinality(Erased(Stripes)) > opts.ParityShards => rd.err \in Unrecoverable
           /\ (\E k \in 1 .. Stripes : Cardinality(Erased(k)) > opts.ParityShards)
                 => out.data = Slice(X, out.from, out.from + BLen(out.data))

----------------------------------------------------------------------------
\* The verifier.

\* The supplied shards that are readable and hold an intact block of stripe k.
Intact(k) ==
    {j \in DOMAIN vres.input :
        shards[vres.input[j]].front.st = "hdr" /\ ~Bad(vres.input[j], k)}

\* C6: when VerifyIntegrity reports FullyReadable, every stripe has at least
\* D intact framed blocks among the supplied shards.
C6_VerifierSoundness ==
    (vres.called /\ vres.err = "" /\ vres.FullyReadable)
        => \A k \in 1 .. Stripes : Cardinality(Intact(k)) >= opts.DataShards

\* The damage of stripe k (from 0) by the per-shard results: the absent or
\* unreadable shards, and the readable ones that list k as broken.
Damage(k) ==
    Cardinality({j \in DOMAIN vres.results : vres.results[j].nil})
    + Cardinality({j \in DOMAIN vres.results :
                      /\ ~vres.results[j].nil
                      /\ \E q \in DOMAIN vres.results[j].BrokenBlocks :
                            vres.results[j].BrokenBlocks[q] = k})

\* C7: on a fleet whose readable shards hold M stripes, IrrecoverableBlocks
\* is the ascending list of the stripes whose damage exceeds P, and
\* FullyReadable says that the list is empty.
C7_DamageTally ==
    (vres.called /\ vres.err = ""
       /\ \A j \in DOMAIN vres.results :
             vres.results[j].nil \/ vres.results[j].BlocksFound = Stripes)
        => /\ vres.IrrecoverableBlocks
                 = SeqOf({k \in 0 .. (Stripes - 1) : Damage(k) > opts.ParityShards})
           /\ vres.FullyReadable <=> (vres.IrrecoverableBlocks = <<>>)

\* C8: VerifyIntegrity on all the shards, finalized and untouched, reports
\* AllGood, FullyReadable and no irrecoverable block, and for each shard
\* BlocksCount = BlocksFound = the number of framed blocks Encode wrote to it.
C8_HealthyFleet ==
    [][(vres' # vres /\ dmg = 0 /\ Len(vres'.input) = totalShards(opts)
          /\ \A i \in ShardIds(opts) : fin[i] = "ok")
        => /\ vres'.err = ""
           /\ vres'.AllGood /\ vres'.FullyReadable /\ vres'.IrrecoverableBlocks = <<>>
           /\ \A j \in DOMAIN vres'.input :
                 /\ vres'.results[j].BlocksCount = vres'.results[j].BlocksFound
                 /\ vres'.results[j].BlocksFound = Len(shards[vres'.input[j]].blocks)]_vars

----------------------------------------------------------------------------
\* Refusals.

\* The supplied shards whose front header is complete when NewReadSeeker runs.
CompleteSupplied(input) == {j \in DOMAIN input : CompleteFront(input[j])}

\* C9, as stated: whenever fewer than t of the supplied shards carry a
\* complete front header, NewReadSeeker fails with NotEnoughKeyShares.
C9_AlwaysNotEnoughKeyShares ==
    [][(~rd.called /\ rd'.called
          /\ Cardinality(CompleteSupplied(rd'.input)) < opts.KeyThreshold)
        => rd'.err = "ErrNotEnoughKeyShards"]_vars

\* C9, amended: whenever fewer than t of the supplied shards carry a complete
\* front header, NewReadSeeker returns an error and no reader: NotEnoughShards
\* when fewer than D shards are supplied, NotEnoughKeyShares otherwise; and
\* every share it hands to Combine comes from a complete front header.
C9_RefusesUnfinalized ==
    [][(~rd.called /\ rd'.called)
        => /\ Cardinality(CompleteSupplied(rd'.input)) < opts.KeyThreshold
                => rd'.err = IF Len(rd'.input) < opts.DataShards
                             THEN "ErrNotEnoughShards" ELSE "ErrNotEnoughKeyShards"
           /\ \A p \in rd'.pieces :
                 \E j \in CompleteSupplied(rd'.input) :
                     shards[rd'.input[j]].front.h.FileKey = p]_vars

\* All the shards of a successful Encode, none finalized, were refused.
C9_UnfinalizedRefused ==
    /\ enc.done /\ enc.err = ""
    /\ \A i \in DOMAIN fin : fin[i] = ""
    /\ rd.called /\ Len(rd.input) = totalShards(opts)
    /\ rd.err = "ErrNotEnoughKeyShards"

\* C10: when Encode returns an error, no shard holds a header with
\* IsComplete = true, at its front or at its end.
C10_NoTrailerOnFailure ==
    (enc.done /\ enc.err # "")
        => \A i \in DOMAIN shards :
              /\ ~(shards[i].trl.st = "hdr" /\ shards[i].trl.h.IsComplete)
              /\ ~CompleteFront(i)

----------------------------------------------------------------------------
\* Finalization.

\* C11: a second FinalizeHeader on a shard returns success and leaves the
\* shard file, bytes and length, as the first one left it, on a file that
\* was truncated as on a buffer that keeps its trailer.
C11_FinalizeIdempotent ==
    \A i \in DOMAIN shards :
        FinalizeOutcome(shards[i], medium).err = "ok" =>
            FinalizeOutcome(FinalizeOutcome(shards[i], medium).s, medium) =
                [err |-> "ok", s |-> FinalizeOutcome(shards[i], medium).s]

\* A shard file was finalized and lost its trailer.
C11_FinalizedAndTruncated ==
    \E i \in DOMAIN shards :
        /\ fin[i] = "ok" /\ medium = "file"
        /\ CompleteFront(i) /\ shards[i].trl.st = "none" /\ Len(shards[i].blocks) > 0

----------------------------------------------------------------------------
\* Key rotation.

\* Every shard is finalized and holds the share the last RotateKeys, from
\* one user key to another, returned for it.
Rotated ==
    /\ rot.called /\ rot.err = "" /\ rot.new # rot.prev
    /\ \A i \in ShardIds(opts) :
          /\ i \in DOMAIN shards /\ i \in DOMAIN rot.splits
          /\ CompleteFront(i)
          /\ shards[i].front.h.FileKey = rot.splits[i]

\* C12: after RotateKeys(old -> new) on a finalized fleet and UpdateShardKey
\* on every shard, a reader opened with the new key opens and delivers X,
\* and a reader opened with the old key fails with the decryption error.
C12_RotationRoundTrip ==
    (rd.called /\ Rotated) =>
        /\ rd.key = rot.new => (rd.err = "" /\ DeliversX)
        /\ rd.key = rot.prev => rd.err = "failed to decrypt file key"

\* C13: RotateKeys on shards of a successful Encode, none of which has a
\* complete front header, returns an error and no key shares.
C13_RotationRefusesUnfinalized ==
    [][(rot'.gen # rot.gen /\ enc.err = ""
        /\ \A j \in DOMAIN rot'.input : ~CompleteFront(rot'.input[j]))
       => (rot'.err # "" /\ DOMAIN rot'.splits = {})]_vars

\* RotateKeys was called on all the shards of a successful Encode, none of
\* them finalized, and returned an error.
C13_UnfinalizedRotation ==
    /\ enc.done /\ enc.err = ""
    /\ rot.called /\ rot.err # "" /\ Len(rot.input) = totalShards(opts)
    /\ \A i \in DOMAIN shards : fin[i] = "" /\ ~CompleteFront(i)

----------------------------------------------------------------------------
\* Per-shard verification.

\* The indices (from 0) of the framed blocks of shard file s whose payload
\* does not hash to the stored hash.
BrokenOf(s) == {k \in 0 .. (Len(s.blocks) - 1) : ~s.blocks[k + 1].ok}

\* C14: on every shard whose header parses, VerifyShardIntegrity reports
\* BlocksFound = the number of complete framed blocks after the header, and
\* BrokenBlocks = the ascending list of the blocks that fail their hash.
C14_PerShardReport ==
    \A i \in DOMAIN shards :
        VerifyShardIntegrity(shards[i]).err = "" =>
            /\ VerifyShardIntegrity(shards[i]).res.BlocksFound = Len(shards[i].blocks)
            /\ VerifyShardIntegrity(shards[i]).res.BrokenBlocks = SeqOf(BrokenOf(shards[i]))

\* VerifyIntegrity returned the result of a shard with a broken block that
\* is not its first.
C14_BrokenBlockReported ==
    /\ vres.called /\ vres.err = ""
    /\ \E j \in DOMAIN vres.input :
          /\ ~vres.results[j].nil
          /\ vres.results[j].BrokenBlocks # <<>>
          /\ vres.results[j].BrokenBlocks = SeqOf(BrokenOf(shards[vres.input[j]]))
          /\ 0 \notin BrokenOf(shards[vres.input[j]])

----------------------------------------------------------------------------
\* Fleet verification.

\* The supplied shards whose header cannot be read or parsed.
UnreadableSupplied == {j \in DOMAIN vres.input : shards[vres.input[j]].front.st # "hdr"}

\* The supplied readable shards whose block of stripe k (from 0) is broken.
BrokenAt(k) ==
    {j \in DOMAIN vres.input :
        shards[vres.input[j]].front.st = "hdr" /\ k \in BrokenOf(shards[vres.input[j]])}

\* The stripes (from 0) VerifyIntegrity listed as irrecoverable.
Listed == {vres.IrrecoverableBlocks[q] : q \in DOMAIN vres.IrrecoverableBlocks}

\* C15: VerifyIntegrity fails, with NotEnoughShards, exactly when fewer than
\* D shards are supplied or more than P of them are unreadable; otherwise it
\* returns a report in which an unreadable shard clears AllGood and counts
\* in the damage of every stripe.
C15_Thresholds ==
    vres.called =>
        /\ vres.err \in {"", "ErrNotEnoughShards"}
        /\ vres.err = "ErrNotEnoughShards"
              <=> \/ Len(vres.input) < opts.DataShards
                  \/ Cardinality(UnreadableSupplied) > opts.ParityShards
        /\ (vres.err = "" /\ UnreadableSupplied # {}) =>
              /\ ~vres.AllGood
              /\ \A k \in 0 .. (Stripes - 1) :
                    Cardinality(UnreadableSupplied) + Cardinality(BrokenAt(k)) > opts.ParityShards
                        => k \in Listed

\* C16: VerifyShardIntegrity reports IsHeaderComplete = true exactly when
\* the front header of the shard is marked complete; on a shard that was
\* encoded but not finalized it reports false.
C16_HeaderCompleteReported ==
    \A i \in DOMAIN shards :
        VerifyShardIntegrity(shards[i]).err = ""
            => (VerifyShardIntegrity(shards[i]).res.IsHeaderComplete <=> CompleteFront(i))

\* The per-shard breakdown a result carries.
Breakdown(r) ==
    [IsAvailable |-> r.IsAvailable, ShardIndex |-> r.ShardIndex, BlocksCount |-> r.BlocksCount,
     BlocksFound |-> r.BlocksFound, BrokenBlocks |-> r.BrokenBlocks]

\* C17: the ByShard field of the report of VerifyIntegrity holds, for each
\* supplied readable shard, the breakdown VerifyShardIntegrity computed for it.
C17_ByShardFilled ==
    (vres.called /\ vres.err = "") =>
        \A j \in DOMAIN vres.input :
            ~vres.results[j].nil =>
                \E q \in DOMAIN vres.ByShard :
                    Breakdown(vres.ByShard[q]) = Breakdown(vres.results[j])

----------------------------------------------------------------------------
\* The shard count.

\* The headers the shards hold, at their front or at their end.
HeadersHeld ==
    {shards[i].front.h : i \in {j \in DOMAIN shards : shards[j].front.st = "hdr"}}
    \cup {shards[i].trl.h : i \in {j \in DOMAIN shards : shards[j].trl.st = "hdr"}}

\* C18: with N the integer sum of DataShards and ParityShards, Encode returns
\* ShardCountMismatch exactly when the number of shard writers is not N, it
\* has then written nothing, and every header records ShardCount = N.
C18_ShardCountCheck ==
    enc.done =>
        /\ enc.err = "ErrShardCountMismatch"
              <=> Cardinality(DOMAIN shards) # opts.DataShards + opts.ParityShards
        /\ enc.err = "ErrShardCountMismatch" => \A i \in DOMAIN shards : ShardLen(shards[i]) = 0
        /\ \A h \in HeadersHeld : h.ShardCount = opts.DataShards + opts.ParityShards

----------------------------------------------------------------------------
\* The header codec.

\* C19: when Header.Encode succeeds, its output starts with the magic and a
\* little-endian length L = the descriptor's length, L <= HeaderSize - 10,
\* the whole descriptor lies from byte 10 on, and Header.Decode of the
\* output yields the header, equal in every field.
C19_HeaderRoundTrip ==
    (hd.stage # "new" /\ hd.encErr = "" /\ ~hd.written) =>
        /\ hd.buf.magic
        /\ Uint16(hd.buf) = hd.dlen
        /\ Uint16(hd.buf) <= HeaderSize - 10
        /\ hd.buf.desc = hd.h /\ hd.buf.n = hd.dlen
        /\ hd.stage = "decoded" => (~hd.panic /\ hd.decErr = "" /\ hd.got = hd.h)

\* C20: Header.Decode of a region without the magic fails with
\* UnrecognizedMagic, and of one whose length field exceeds HeaderSize - 10
\* with InvalidHeaderSize; both return (no panic) and leave the target as
\* it was.
C20_ParseErrors ==
    hd.stage = "decoded" =>
        /\ ~hd.buf.magic =>
              (~hd.panic /\ hd.decErr = "ErrUnrecognizedMagic" /\ hd.got = hd.target)
        /\ (hd.buf.magic /\ Uint16(hd.buf) > HeaderSize - 10) =>
              (~hd.panic /\ hd.decErr = "ErrInvalidHeaderSize" /\ hd.got = hd.target)

----------------------------------------------------------------------------
\* The read loop of Encode.

\* The plaintext bytes the zstd frames Encode wrote stand for.
Framed ==
    IF stream.frames = <<>> THEN 0
    ELSE stream.frames[Len(stream.frames)].xoff + stream.frames[Len(stream.frames)].xlen

\* C21: Encode reads its input to end-of-stream, however the reader cuts X
\* into reads: the FileSize returned is |X|, the hash is that of X, and all
\* of X went to the compressor.
C21_ConsumesInput ==
    (enc.done /\ enc.err = "") =>
        /\ enc.FileSize = xlen
        /\ enc.FileHash = Sha256(Slice(<<Run("X", 0, xlen)>>, 0, xlen))
        /\ Framed = xlen

\* C22: Encode writes every framed block of a shard, the padded final
\* stripe included, before it appends the trailer, and nothing after the
\* trailer: each shard ends as provisional header, M framed blocks, complete
\* trailer, with the same M on every shard.
C22_WriteOrder ==
    /\ \A i \in DOMAIN shards : shards[i].late = 0
    /\ (enc.done /\ enc.err = "" /\ dmg = 0 /\ \A i \in DOMAIN shards : fin[i] = "") =>
          \A i \in DOMAIN shards :
              /\ shards[i].front.st = "hdr" /\ ~shards[i].front.h.IsComplete
              /\ Len(shards[i].blocks) = Stripes /\ shards[i].part = 0
              /\ shards[i].trl.st = "hdr" /\ shards[i].trl.h.IsComplete
              /\ ShardLen(shards[i]) = HeaderSize + Stripes * FrameLen + HeaderSize

\* Encode has returned from a plaintext whose last stripe was padded.
C22_PaddedStripeBeforeTrailer ==
    /\ enc.done /\ enc.err = "" /\ dmg = 0 /\ \A i \in DOMAIN shards : fin[i] = ""
    /\ Stripes >= 2 /\ stream.esize % (rsBlockSize * opts.DataShards) # 0
    /\ \A i \in DOMAIN shards : Len(shards[i].blocks) = Stripes /\ shards[i].trl.st = "hdr"


----------------------------------------------------------------------------
\* Claims about the AES layer on its own.

\* The plaintext the writer was given, P_c bytes long.
PlainSize == stream.csize
Plain == <<Run("Z", 0, PlainSize)>>

\* A reader of the AES layer on its own is open.
ReaderOpen == ae.closed /\ rd.called

\* C23: Seek(o, SeekStart) with o in [0, P_c] returns o, and the Read that
\* follows it, into a buffer of k bytes, returns exactly the plaintext bytes
\* [o, min(o + k, P_c)), contiguous from the start of the buffer, its count
\* holding no padding beyond P_c.
C23_ReadAfterSeek ==
    (ReaderOpen /\ out.seeks > 0 /\ ae.whence = "start") =>
        /\ ae.ret = ae.arg
        /\ ae.since = 1 =>
              /\ ~out.failed
              /\ out.n = Min(ae.arg + ae.k, PlainSize) - ae.arg
              /\ out.data = Slice(Plain, ae.arg, Min(ae.arg + ae.k, PlainSize))

\* C24: Reads with no Seek among them return consecutive plaintext: what
\* they returned so far, joined, is the plaintext from byte 0 on, nothing
\* skipped or repeated, and it is the whole plaintext when the end is met.
C24_SequentialReads ==
    (ReaderOpen /\ out.seeks = 0) =>
        /\ ~out.failed
        /\ BLen(out.data) <= PlainSize
        /\ out.data = Slice(Plain, 0, Min(BLen(out.data), PlainSize))
        /\ out.eof => BLen(out.data) = PlainSize

\* C25: Whatever Seeks and Reads came before, a Read opens the chunk at
\* downstream offset j*(C+T) under the nonce of index j, the one the writer
\* sealed it under: over intact ciphertext and with the right key no Read
\* fails authentication.
C25_NonceOfOffset ==
    ReaderOpen => out.err # "message authentication failed"

\* A Read after a Seek past the first chunk opened chunks and returned bytes.
C25_OpenedAfterSeek ==
    /\ ReaderOpen /\ out.seeks > 0 /\ ae.since > 0
    /\ ae.prev.called /\ rd.rsOff > 2 * (aesBlockSize + Overhead)
    /\ out.from >= aesBlockSize /\ out.n > 0 /\ out.err = ""

\* C26: Over the Writes and the Close of one writer the chunks are sealed
\* under the indices 0, 1, 2, ... in the order they are written, so no two
\* chunks of the writer share a nonce.
C26_NonceUnique ==
    /\ \A j \in DOMAIN ae.w.chunks : ae.w.chunks[j].idx = j - 1
    /\ \A i, j \in DOMAIN ae.w.chunks : i # j => ae.w.chunks[i].nonce # ae.w.chunks[j].nonce

\* A writer that sealed chunks in two Writes and one more in Close.
C26_SealedInWritesAndClose ==
    /\ ae.closed /\ ae.calls >= 2 /\ Len(ae.w.chunks) >= 4
    /\ ae.total % aesBlockSize # 0

\* C27: Close seals a final chunk only when 0 < r < C bytes are buffered;
\* after it the ciphertext counter is ceil(n/C)*(C+T), n being the bytes
\* written, and the plaintext counter is still n.
C27_CloseSealsResidual ==
    ae.closed =>
        /\ Len(ae.w.chunks) = (ae.total + aesBlockSize - 1) \div aesBlockSize
        /\ ae.w.aeswritten = ((ae.total + aesBlockSize - 1) \div aesBlockSize)
                                * (aesBlockSize + Overhead)
        /\ ae.w.aesread = ae.total

\* C28: Before Close, after Writes of n bytes in all: fewer than C bytes
\* are buffered, floor(n/C) chunks of C+T bytes went downstream in order,
\* every Write returned len(p), the plaintext counter is n and the
\* ciphertext counter floor(n/C)*(C+T).
C28_Buffering ==
    ~ae.closed =>
        /\ ae.w.aesbuf < aesBlockSize
        /\ ae.w.aesbuf = ae.total % aesBlockSize
        /\ Len(ae.w.chunks) = ae.total \div aesBlockSize
        /\ \A j \in DOMAIN ae.w.chunks :
              /\ ae.w.chunks[j].eoff = (j - 1) * (aesBlockSize + Overhead)
              /\ ae.w.chunks[j].zoff = (j - 1) * aesBlockSize
        /\ ae.w.rsout + ae.w.rsbuf = (ae.total \div aesBlockSize) * (aesBlockSize + Overhead)
        /\ ae.retOK
        /\ ae.w.aesread = ae.total
        /\ ae.w.aeswritten = (ae.total \div aesBlockSize) * (aesBlockSize + Overhead)

\* Two Writes, the second sealing two chunks at once and leaving a rest.
C28_TwoChunksInOneWrite ==
    /\ ~ae.closed /\ ae.calls = 2 /\ ae.total = 500 + 2100
    /\ Len(ae.w.chunks) = 2 /\ ae.w.aesbuf > 0

\* C29: Seek(o, whence) resolves the absolute plaintext offset a (o from the
\* start, the current plaintext position + o, or P_c + o), returns a, puts
\* the downstream at (a div C)*(C+T) and sets the bytes to discard to
\* a - (a div C)*C, within [0, C); Seek(0, SeekCurrent) returns the current
\* position and changes nothing of what the next Read returns.
C29_SeekPostcondition ==
    (ReaderOpen /\ out.seeks > 0 /\ ae.since = 0) =>
        /\ ae.ret = out.from
        /\ rd.rsOff = (out.from \div aesBlockSize) * (aesBlockSize + Overhead)
        /\ rd.aesDiscard = out.from - (out.from \div aesBlockSize) * aesBlockSize
        /\ rd.aesDiscard >= 0 /\ rd.aesDiscard < aesBlockSize
        /\ (ae.whence = "current" /\ ae.arg = 0) =>
              \A k \in PlainLens :
                  /\ AESReadMem(rd, k).n = AESReadMem(ae.prev, k).n
                  /\ AESReadMem(rd, k).err = AESReadMem(ae.prev, k).err
                  /\ AESReadMem(rd, k).data = AESReadMem(ae.prev, k).data

\* C30: The 12-byte nonce of chunk index j is the 96-bit big-endian encoding
\* of j: j in the rightmost bytes, zero bytes before it.
C30_NonceEncoding ==
    \A j \in DOMAIN ae.w.chunks : ae.w.chunks[j].nonce = BigEndian(ae.w.chunks[j].idx, 12)


----------------------------------------------------------------------------
\* Claims about the Reed-Solomon layer on its own.

\* The bytes of one stripe, and the stripes n bytes fill or touch.
StripeLen == rsBlockSize * opts.DataShards
StripesIn(n) == (n + StripeLen - 1) \div StripeLen

\* C31: After Writes of n bytes in all and Close, each of the N shard
\* writers has received ceil(n/(D*B)) framed blocks of B+32 bytes, Close
\* adding none when nothing is buffered; before Close fewer than D*B bytes
\* are buffered and floor(n/(D*B)) stripes were emitted.
C31_StripeAlignment ==
    \A i \in DOMAIN ae.w.sh :
        /\ ae.w.sh[i].part = 0
        /\ ShardLen(ae.w.sh[i]) = HeaderSize + Len(ae.w.sh[i].blocks) * FrameLen
        /\ ae.closed => Len(ae.w.sh[i].blocks) = StripesIn(ae.total)
        /\ ~ae.closed => /\ ae.w.rsbuf < StripeLen
                         /\ ae.w.rsbuf = ae.total % StripeLen
                         /\ Len(ae.w.sh[i].blocks) = ae.total \div StripeLen

\* A writer closed over a residual after a Write that emitted stripes.
C31_ClosedOverResidual ==
    /\ ae.closed /\ ae.calls = 2 /\ ae.total % StripeLen # 0 /\ StripesIn(ae.total) >= 3
    /\ \A i \in DOMAIN ae.w.sh : Len(ae.w.sh[i].blocks) = StripesIn(ae.total)

\* The data the writer was given, E bytes long.
DataSize == ae.total
Data == <<Run("E", 0, DataSize)>>

\* A reader of the Reed-Solomon layer on its own is open.
RSReaderOpen == ae.closed /\ rd.called /\ rd.rs.N > 0

\* C32: Over healthy shards, Seek(o, SeekStart) with o in [0, E] returns o
\* and puts every shard reader at (o div (D*B))*(B+32), Seek(-s, SeekEnd)
\* returns E - s, and the Reads that follow, whatever their lengths, return
\* the data from that offset on, up to its end.
C32_SeekEquivalence ==
    (RSReaderOpen /\ out.seeks > 0) =>
        /\ ae.whence = "start" => out.from = ae.arg
        /\ ae.whence = "end" => out.from = DataSize + ae.arg
        /\ ae.ret = out.from
        /\ ae.spos = (out.from \div StripeLen) * FrameLen
        /\ ~out.failed
        /\ out.from + BLen(out.data) <= DataSize
        /\ out.data = Slice(Data, out.from, out.from + BLen(out.data))
        /\ out.eof => out.from + BLen(out.data) = DataSize

\* The data from an offset inside the second stripe was read to its end, in
\* two Reads, and the end was met.
C32_ReadToEndAfterSeek ==
    /\ RSReaderOpen /\ out.seeks > 0 /\ ae.since = 2
    /\ out.from > StripeLen /\ out.from % StripeLen # 0
    /\ out.eof /\ out.n = 0 /\ BLen(out.data) > rsBlockSize
    /\ out.from + BLen(out.data) = DataSize

\* The framed blocks of stripe k (from 1) whose hash check fails.
FailingAt(k) == {i \in DOMAIN shards : k <= Len(shards[i].blocks) /\ ~shards[i].blocks[k].ok}

C34_FramedBlocks ==
    \A i \in DOMAIN ae.w.sh :
        /\ ae.w.sh[i].part = 0
        /\ \A k \in DOMAIN ae.w.sh[i].blocks :
              /\ ae.w.sh[i].blocks[k].ok
              /\ ae.w.sh[i].blocks[k].lo = (k - 1) * StripeLen

\* A parity shard holds the blocks of a full stripe and of the padded last.
C34_ParityOfPaddedStripe ==
    /\ ae.closed /\ opts.DataShards = 2 /\ opts.ParityShards = 1
    /\ ae.total > StripeLen /\ ae.total % StripeLen # 0
    /\ Len(ae.w.sh[2].blocks) = 2 /\ ae.w.sh[2].blocks[2].ok

----------------------------------------------------------------------------
\* Claims about the headers of stored shards.

\* This step is UpdateShardKey on shard i, and it returned r.
Updates(i, r) ==
    /\ rot'.gen = rot.gen /\ rot'.upd # rot.upd
    /\ i \in DOMAIN rot'.upd /\ rot'.upd[i] = r
    /\ \A j \in DOMAIN rot'.upd \ {i} : j \in DOMAIN rot.upd /\ rot'.upd[j] = rot.upd[j]

\* What of a shard file lies past its front header.
PastHeader(s) == [s EXCEPT !.front = NoRegion]

\* C35: UpdateShardKey(shard, share) rewrites the header region [0, H) only,
\* the bytes past it and the length of the shard staying as they are, and
\* the header then parsed is the one before in every field but the key
\* share, which is the share supplied.
C35_UpdateFrame ==
    [][\A i \in DOMAIN shards :
          Updates(i, "ok") =>
              /\ DOMAIN shards' = DOMAIN shards
              /\ \A j \in DOMAIN shards \ {i} : shards'[j] = shards[j]
              /\ PastHeader(shards'[i]) = PastHeader(shards[i])
              /\ ShardLen(shards'[i]) = ShardLen(shards[i])
              /\ Decode(shards'[i].front).err = ""
              /\ Decode(shards'[i].front).h =
                     [Decode(shards[i].front).h EXCEPT !.FileKey = rot.splits[i]]]_vars

\* A finalized shard with its blocks holds the share of a rotation to
\* another user key.
C35_ShareReplaced ==
    \E i \in DOMAIN shards :
        /\ rot.called /\ rot.err = "" /\ rot.new # rot.prev
        /\ i \in DOMAIN rot.upd /\ rot.upd[i] = "ok"
        /\ CompleteFront(i) /\ Len(shards[i].blocks) >= 1
        /\ shards[i].front.h.FileKey = rot.splits[i]
        /\ shards[i].front.h.FileKey.g > 0

\* C37: Once UpdateShardKey has put a share in the front header of a shard,
\* the share stays there under every later FinalizeHeader on that shard, in
\* whatever order the two are applied to the shards.  (Only UpdateShardKey
\* writes shares of a split other than Encode's, and only FinalizeHeader
\* changes a shard in a step that leaves the rotation as it is.)
C37_ShareDurable ==
    [][\A i \in DOMAIN shards :
          (/\ rot' = rot
           /\ shards[i].front.st = "hdr"
           /\ shards[i].front.h.FileKey.g > 0)
          => /\ shards'[i].front.st = "hdr"
             /\ shards'[i].front.h.FileKey = shards[i].front.h.FileKey]_vars

\* The last H bytes of shard i parse as a header marked complete.
CompleteLast(i) == LastRegion(shards[i]).st = "hdr" /\ LastRegion(shards[i]).h.IsComplete

\* C36: On a shard whose front header is incomplete, FinalizeHeader returns
\* an error and leaves the shard as it is when the last H bytes are not a
\* complete header (HeaderNotComplete when they parse); when they are, it
\* succeeds, the front header is then the trailer byte for byte, and the
\* data region is as before.
C36_FinalizeOrRefuse ==
    \A i \in DOMAIN shards :
        (shards[i].front.st = "hdr" /\ ~shards[i].front.h.IsComplete) =>
            /\ ~CompleteLast(i) =>
                  /\ FinalizeOutcome(shards[i], medium).err # "ok"
                  /\ FinalizeOutcome(shards[i], medium).s = shards[i]
                  /\ LastRegion(shards[i]).st = "hdr" =>
                        FinalizeOutcome(shards[i], medium).err = "ErrHeaderNotComplete"
            /\ CompleteLast(i) =>
                  /\ FinalizeOutcome(shards[i], medium).err = "ok"
                  /\ FinalizeOutcome(shards[i], medium).s.front = LastRegion(shards[i])
                  /\ FinalizeOutcome(shards[i], medium).s.blocks = shards[i].blocks
                  /\ FinalizeOutcome(shards[i], medium).s.part = shards[i].part
            /\ fin[i] # "" => /\ fin[i] # "ok"
                              /\ fin[i] = FinalizeOutcome(shards[i], medium).err

\* FinalizeHeader refused a shard that holds its provisional header only:
\* its last H bytes are that header, which parses and is not complete.
C36_RefusedIncomplete ==
    \E i \in DOMAIN shards :
        /\ fin[i] = "ErrHeaderNotComplete" /\ ShardLen(shards[i]) = HeaderSize
        /\ shards[i].front.st = "hdr" /\ ~shards[i].front.h.IsComplete

----------------------------------------------------------------------------
\* Readers opened while a rotation is under way.

\* C38: once RotateKeys has returned new shares, and whatever the set of
\* shards UpdateShardKey has written its share to, NewReadSeeker with the
\* old or the new user key fails or returns a reader that delivers X.
C38_PartialRotationSafety ==
    (/\ rot.called /\ rot.err = "" /\ rot.new # rot.prev
     /\ rd.called /\ rd.key \in {rot.prev, rot.new})
        => (rd.err # "" \/ DeliversX)

----------------------------------------------------------------------------
\* The LimitReader.

\* C39: over any stream, whatever was read and sought before, a Read of a
\* LimitReader of limit L at a position p < L returns at most L - p bytes,
\* all of them located before L, a Read at p >= L returns end-of-stream,
\* and Seek(off, SeekEnd) puts the reader at L + off.
C39_LimitCap ==
    (rd.called /\ out.ops > 0) =>
        /\ ae.whence = "read" =>
              IF ae.prev.pos >= rd.limit THEN out.n = 0 /\ out.err = "EOF"
              ELSE /\ out.n <= rd.limit - ae.prev.pos
                   /\ \A j \in DOMAIN out.data : out.data[j].hi <= rd.limit
        /\ ae.whence = "end" => (ae.ret = rd.limit + ae.arg /\ rd.pos = rd.limit + ae.arg)

====
